---- MODULE Spec2Model ----
(***************************************************************************)
(* gymlog: the in-process cache (src/utils/cache.ts), the cache-key        *)
(* builders and invalidation policy, the DatabaseService transaction       *)
(* wrapper and the ExerciseService read/write paths that use them.         *)
(*                                                                         *)
(* Strings are sequences of one-character strings, so that key building    *)
(* and RegExp matching are computed character by character.                *)
(***************************************************************************)
EXTENDS Integers, Sequences, FiniteSets, TLC

VARIABLES
    cache,          \* CacheManager.cache: present keys -> CacheEntry
    dependencies,   \* CacheManager.dependencies: parent key -> set of child keys
    now,            \* Date.now()
    ticks,          \* number of clock advances so far (bounded)
    inflight,       \* cache-level callers suspended in getOrFetch's `await fetchFn()`
    lastCall,       \* the most recent completed CacheManager call and what it returned
    stored,         \* history: per key, the last store not followed by set/invalidate/clear
    edges,          \* number of addDependency calls so far (bounded)
    keyIn,          \* key-matching study: the key under test
    patIn,          \* key-matching study: the pattern under test
    matchOut,       \* key-matching study: result of RegExp(patIn).test(keyIn)
    db,             \* the SQLite connection's current view of the tables
    txSnap,         \* <<>> when no unit is open, else <<tables as of BEGIN>>
    proc,           \* per service caller: the operation in progress and its locals
    res,            \* per service caller: outcome of its last completed operation
    hist,           \* history of the service layer (units, invalidations, provenance)
    ops,            \* number of service operations started so far (bounded)
    cleanupInterval, \* cache.ts module variable: <<>> or <<handle of the cleanup timer>>
    intervals,      \* the runtime's live setInterval timers (handles not yet cleared)
    service,        \* DatabaseService: initState, initPromise and the promises made so far
    callers         \* per initDatabase caller: where it is and what it got

cacheVars == <<cache, dependencies, now, ticks, inflight, lastCall, stored, edges>>
keyVars   == <<keyIn, patIn, matchOut>>
svcVars   == <<db, txSnap, proc, res, hist, ops>>
appVars   == <<cleanupInterval, intervals, service, callers>>
vars      == <<cache, dependencies, now, ticks, inflight, lastCall, stored, edges,
               keyIn, patIn, matchOut, db, txSnap, proc, res, hist, ops,
               cleanupInterval, intervals, service, callers>>

----------------------------------------------------------------------------
(* Bounds of the model *)

MaxTicks == 2
MaxEdges == 2
MaxOps == 3
MaxTimers == 2

----------------------------------------------------------------------------
(* Strings *)

None == <<>>
Some(x) == <<x>>

Digits == <<"0", "1", "2", "3", "4", "5", "6", "7", "8", "9">>

RECURSIVE NumStr(_)
\* `${n}` for a non-negative integer
NumStr(n) == IF n < 10 THEN <<Digits[n + 1]>>
             ELSE NumStr(n \div 10) \o <<Digits[(n % 10) + 1]>>

\* s has t at position i (1-based)
HasAt(s, t, i) == /\ i + Len(t) - 1 <= Len(s)
                  /\ \A j \in 1..Len(t) : s[i + j - 1] = t[j]

\* new RegExp(pattern).test(key) for a pattern without metacharacters:
\* an unanchored search for the literal text
RegexTest(pattern, key) == \E i \in 1..(Len(key) + 1) : HasAt(key, pattern, i)

S_exercises == <<"e","x","e","r","c","i","s","e","s">>
S_exercise_tags == <<"e","x","e","r","c","i","s","e","_","t","a","g","s">>
S_tags == <<"t","a","g","s">>
S_sessions == <<"s","e","s","s","i","o","n","s">>
S_session == <<"s","e","s","s","i","o","n">>
S_exercise == <<"e","x","e","r","c","i","s","e">>
S_calendar == <<"c","a","l","e","n","d","a","r">>
S_sets == <<"s","e","t","s">>
S_all == <<"a","l","l">>
S_tag == <<"t","a","g">>
S_recent == <<"r","e","c","e","n","t">>
S_favorites == <<"f","a","v","o","r","i","t","e","s">>
S_date == <<"d","a","t","e">>
S_range == <<"r","a","n","g","e">>
S_profile == <<"p","r","o","f","i","l","e">>
Colon == <<":">>

----------------------------------------------------------------------------
(* CacheKeys *)

allExercises == S_exercises \o Colon \o S_all
exerciseById(id) == S_exercises \o Colon \o NumStr(id)
exercisesByTag(tagId) == S_exercises \o Colon \o S_tag \o Colon \o NumStr(tagId)
recentExercises == S_exercises \o Colon \o S_recent
favoriteExercises == S_exercises \o Colon \o S_favorites
allTags == S_tags \o Colon \o S_all
tagById(id) == S_tags \o Colon \o NumStr(id)
sessionById(id) == S_sessions \o Colon \o NumStr(id)
sessionsByDate(date) == S_sessions \o Colon \o S_date \o Colon \o date
sessionsByDateRange(start, end) ==
    S_sessions \o Colon \o S_range \o Colon \o start \o Colon \o end
calendarMarkers(year, month) == S_calendar \o Colon \o NumStr(year) \o Colon \o NumStr(month)
setsBySession(sessionId) == S_sets \o Colon \o S_session \o Colon \o NumStr(sessionId)
setsByExercise(exerciseId) == S_sets \o Colon \o S_exercise \o Colon \o NumStr(exerciseId)
profileKey == S_profile

\* the key the pattern-scope example of the specification stores beside the exercise keys
exerciseTagsKey(id) == S_exercise_tags \o Colon \o NumStr(id)

----------------------------------------------------------------------------
(* CacheManager: the methods as functions of the maps and the clock *)

DEFAULT_TTL == 5 * 60 * 1000

\* cached values are tagged records, so that values of different shapes compare
Null == [kind |-> "null"]
Val(n) == [kind |-> "val", v |-> n]
Failure == [kind |-> "error"]

Without(c, ks) == [k \in (DOMAIN c) \ ks |-> c[k]]

entryExpired_ge(entry, t) == t - entry.timestamp >= entry.ttl

\* `now - entry.timestamp > entry.ttl`
entryExpired(entry, t) == t - entry.timestamp > entry.ttl

\* get: the value returned
get_result(c, key, t) ==
    IF key \notin DOMAIN c THEN Null
    ELSE IF entryExpired(c[key], t) THEN Null
    ELSE c[key].data

get_cache_refresh(c, key, t) ==
    IF key \notin DOMAIN c THEN c
    ELSE IF entryExpired(c[key], t) THEN Without(c, {key})
    ELSE [c EXCEPT ![key].timestamp = t]

\* get: the map afterwards (an expired entry is deleted)
get_cache(c, key, t) ==
    IF key \in DOMAIN c /\ entryExpired(c[key], t) THEN Without(c, {key}) ELSE c

\* the ttl parameter: omitted (None) means DEFAULT_TTL
ttlOrDefault(ttlArg) == IF ttlArg = None THEN DEFAULT_TTL ELSE ttlArg[1]

\* set: the map afterwards
set_cache(c, key, data, ttlArg, t) ==
    [k \in (DOMAIN c) \cup {key} |->
        IF k = key THEN [data |-> data, timestamp |-> t, ttl |-> ttlOrDefault(ttlArg)]
        ELSE c[k]]

depsOf(d, key) == IF key \in DOMAIN d THEN d[key] ELSE {}

invalidate_cache_keyonly(c, d, key) == Without(c, {key})

\* invalidate: delete the key, then delete each key of dependencies.get(key)
invalidate_cache(c, d, key) == Without(c, {key} \cup depsOf(d, key))

invalidatePattern_cache_all(c, d, pattern) == Without(c, DOMAIN c)

\* invalidatePattern: collect the matching keys, then invalidate each
invalidatePattern_cache(c, d, pattern) ==
    LET keysToDelete == {k \in DOMAIN c : RegexTest(pattern, k)}
    IN  Without(c, keysToDelete \cup UNION {depsOf(d, k) : k \in keysToDelete})

\* addDependency: the dependency map afterwards
addDependency_deps(d, parentKey, childKeys) ==
    [k \in (DOMAIN d) \cup {parentKey} |->
        IF k = parentKey THEN depsOf(d, parentKey) \cup childKeys ELSE d[k]]

cleanup_cache_ge(c, t) == Without(c, {k \in DOMAIN c : entryExpired_ge(c[k], t)})

\* cleanup: the map afterwards
cleanup_cache(c, t) == Without(c, {k \in DOMAIN c : entryExpired(c[k], t)})

EmptyMap == [k \in {} |-> Null]

----------------------------------------------------------------------------
(* CacheManager calls as actions (cache-level study) *)

CacheKeySet == {allExercises, exerciseById(42), exerciseTagsKey(1)}
TimedKeySet == {allExercises, allTags}
CacheValues == {Val(1), Null}
TtlArgs == {None, Some(1)}
TickSteps == {1, DEFAULT_TTL}
Callers == {1, 2}
TimerHandles == 1 .. MaxTimers
PolicyPatterns == {S_exercises \o Colon, S_tags \o Colon, S_sessions \o Colon,
                   S_calendar \o Colon}

NoInflight == \A p \in Callers : inflight[p] = None

\* a read call records what it found; `had` is the history of the key before the call
Call(op, key, ret, fetched, present) ==
    [op |-> op, key |-> key, ret |-> ret, fetched |-> fetched,
     present |-> present, at |-> now, had |-> IF key \in DOMAIN stored THEN stored[key] ELSE None]

\* a call that returns nothing
Done(op, key) ==
    [op |-> op, key |-> key, ret |-> Null, fetched |-> FALSE,
     present |-> FALSE, at |-> now, had |-> None]

NoCall == [op |-> "none", key |-> None, ret |-> Null, fetched |-> FALSE,
           present |-> FALSE, at |-> 0, had |-> None]

Forget(h, ks) == [k \in DOMAIN h |-> IF k \in ks THEN None ELSE h[k]]

\* the clock advances
Tick ==
    /\ ticks < MaxTicks
    /\ \E d \in TickSteps : now' = now + d
    /\ ticks' = ticks + 1
    /\ lastCall' = NoCall
    /\ UNCHANGED <<cache, dependencies, inflight, stored, edges>>

get(key) ==
    /\ cache' = get_cache(cache, key, now)
    /\ lastCall' = Call("get", key, get_result(cache, key, now), FALSE, key \in DOMAIN cache)
    /\ UNCHANGED <<dependencies, now, ticks, inflight, stored, edges>>

set(key, data, ttlArg) ==
    /\ cache' = set_cache(cache, key, data, ttlArg, now)
    /\ stored' = [stored EXCEPT ![key] =
                    Some([v |-> data, t |-> now, ttl |-> ttlOrDefault(ttlArg), by |-> "set"])]
    /\ lastCall' = Done("set", key)
    /\ UNCHANGED <<dependencies, now, ticks, inflight, edges>>

\* getOrFetch up to `await fetchFn()`: a hit returns, a miss suspends in the fetch
getOrFetch_begin(p, key, ttlArg) ==
    /\ inflight[p] = None
    /\ LET cached == get_result(cache, key, now)
       IN  /\ cache' = get_cache(cache, key, now)
           /\ IF cached # Null
              THEN /\ lastCall' = Call("getOrFetch", key, cached, FALSE, key \in DOMAIN cache)
                   /\ inflight' = inflight
              ELSE /\ inflight' = [inflight EXCEPT ![p] =
                                    Some([key |-> key, ttl |-> ttlArg, at |-> now,
                                          had |-> stored[key],
                                          present |-> key \in DOMAIN cache])]
                   /\ lastCall' = lastCall
    /\ UNCHANGED <<dependencies, now, ticks, stored, edges>>

getOrFetch_resolve_first(p, data) ==
    /\ inflight[p] # None
    /\ LET f == inflight[p][1]
           kept == get_result(cache, f.key, now) # Null
       IN  /\ cache' = IF kept THEN cache ELSE set_cache(cache, f.key, data, f.ttl, now)
           /\ stored' = IF kept THEN stored
                        ELSE [stored EXCEPT ![f.key] =
                                Some([v |-> data, t |-> now, ttl |-> ttlOrDefault(f.ttl),
                                      by |-> "getOrFetch"])]
           /\ lastCall' = [Call("getOrFetch", f.key, data, TRUE, f.present)
                               EXCEPT !.at = f.at, !.had = f.had]
    /\ inflight' = [inflight EXCEPT ![p] = None]
    /\ UNCHANGED <<dependencies, now, ticks, edges>>

\* fetchFn resolves with data: set(key, data, ttl) and return data
getOrFetch_resolve(p, data) ==
    /\ inflight[p] # None
    /\ LET f == inflight[p][1]
       IN  /\ cache' = set_cache(cache, f.key, data, f.ttl, now)
           /\ stored' = [stored EXCEPT ![f.key] =
                           Some([v |-> data, t |-> now, ttl |-> ttlOrDefault(f.ttl),
                                 by |-> "getOrFetch"])]
           /\ lastCall' = [Call("getOrFetch", f.key, data, TRUE, f.present)
                               EXCEPT !.at = f.at, !.had = f.had]
    /\ inflight' = [inflight EXCEPT ![p] = None]
    /\ UNCHANGED <<dependencies, now, ticks, edges>>

getOrFetch_reject_cached(p) ==
    /\ inflight[p] # None
    /\ LET f == inflight[p][1]
       IN  /\ cache' = set_cache(cache, f.key, Failure, f.ttl, now)
           /\ lastCall' = [Call("getOrFetch", f.key, Failure, TRUE, f.present)
                               EXCEPT !.at = f.at, !.had = f.had]
    /\ inflight' = [inflight EXCEPT ![p] = None]
    /\ UNCHANGED <<dependencies, now, ticks, stored, edges>>

\* fetchFn rejects: the error propagates, nothing is stored
getOrFetch_reject(p) ==
    /\ inflight[p] # None
    /\ LET f == inflight[p][1]
       IN  lastCall' = [Call("getOrFetch", f.key, Failure, TRUE, f.present)
                           EXCEPT !.at = f.at, !.had = f.had]
    /\ inflight' = [inflight EXCEPT ![p] = None]
    /\ UNCHANGED <<cache, dependencies, now, ticks, stored, edges>>

invalidate_forgetting(key) ==
    /\ cache' = invalidate_cache(cache, dependencies, key)
    /\ dependencies' = Without(dependencies, {key})
    /\ stored' = Forget(stored, {key} \cup depsOf(dependencies, key))
    /\ lastCall' = Done("invalidate", key)
    /\ UNCHANGED <<now, ticks, inflight, edges>>

invalidate(key) ==
    /\ cache' = invalidate_cache(cache, dependencies, key)
    /\ stored' = Forget(stored, {key} \cup depsOf(dependencies, key))
    /\ lastCall' = Done("invalidate", key)
    /\ UNCHANGED <<dependencies, now, ticks, inflight, edges>>

invalidatePattern(pattern) ==
    /\ cache' = invalidatePattern_cache(cache, dependencies, pattern)
    /\ stored' = Forget(stored, (DOMAIN cache) \ (DOMAIN cache'))
    /\ lastCall' = [Done("invalidatePattern", pattern) EXCEPT !.had = Some(cache)]
    /\ UNCHANGED <<dependencies, now, ticks, inflight, edges>>

addDependency(parentKey, childKey) ==
    /\ edges < MaxEdges
    /\ edges' = edges + 1
    /\ dependencies' = addDependency_deps(dependencies, parentKey, {childKey})
    /\ lastCall' = Done("addDependency", parentKey)
    /\ UNCHANGED <<cache, now, ticks, inflight, stored>>

clear ==
    /\ cache' = EmptyMap
    /\ dependencies' = EmptyMap
    /\ stored' = Forget(stored, DOMAIN stored)
    /\ lastCall' = Done("clear", None)
    /\ UNCHANGED <<now, ticks, inflight, edges>>

cleanup ==
    /\ cache' = cleanup_cache(cache, now)
    /\ lastCall' = [Done("cleanup", None) EXCEPT !.had = Some(cache)]
    /\ UNCHANGED <<dependencies, now, ticks, inflight, stored, edges>>

\* setInterval: the runtime hands out a handle that is not in use
newInterval(live) == CHOOSE h \in TimerHandles \ live : \A g \in TimerHandles \ live : h <= g

startCacheCleanup_unguarded ==
    /\ TimerHandles \ intervals # {}
    /\ cleanupInterval' = Some(newInterval(intervals))
    /\ intervals' = intervals \cup {newInterval(intervals)}
    /\ lastCall' = NoCall
    /\ UNCHANGED <<cache, dependencies, now, ticks, inflight, stored, edges>>

\* startCacheCleanup(intervalMs): `if (cleanupInterval) return;` else setInterval
startCacheCleanup ==
    /\ TimerHandles \ intervals # {}
    /\ IF cleanupInterval # None
         THEN UNCHANGED <<cleanupInterval, intervals>>
         ELSE /\ cleanupInterval' = Some(newInterval(intervals))
              /\ intervals' = intervals \cup {newInterval(intervals)}
    /\ lastCall' = NoCall
    /\ UNCHANGED <<cache, dependencies, now, ticks, inflight, stored, edges>>

\* stopCacheCleanup(): clearInterval(cleanupInterval); cleanupInterval = null
stopCacheCleanup ==
    /\ IF cleanupInterval # None
         THEN /\ intervals' = intervals \ {cleanupInterval[1]}
              /\ cleanupInterval' = None
         ELSE UNCHANGED <<cleanupInterval, intervals>>
    /\ lastCall' = NoCall
    /\ UNCHANGED <<cache, dependencies, now, ticks, inflight, stored, edges>>

\* a live timer fires: `() => { cache.cleanup(); }`
intervalFires(h) ==
    /\ h \in intervals
    /\ cleanup
    /\ UNCHANGED <<cleanupInterval, intervals>>

CacheInit(keys) ==
    /\ cache = EmptyMap
    /\ dependencies = EmptyMap
    /\ now = 0
    /\ ticks = 0
    /\ inflight = [p \in Callers |-> None]
    /\ lastCall = NoCall
    /\ stored = [k \in keys |-> None]
    /\ edges = 0

KeyIdle == keyIn = None /\ patIn = None /\ matchOut = None

AppIdle ==
    /\ cleanupInterval = None
    /\ intervals = {}
    /\ service = None
    /\ callers = None

TablesIdle ==
    /\ db = None
    /\ txSnap = None
    /\ proc = None
    /\ res = None
    /\ hist = None
    /\ ops = 0

SvcIdle == TablesIdle /\ AppIdle

----------------------------------------------------------------------------
(* SpecCache: one caller at a time uses the cache while time passes *)

CacheTimedInit == CacheInit(TimedKeySet) /\ KeyIdle /\ SvcIdle

CacheTimedNext ==
    \/ Tick /\ UNCHANGED <<keyVars, svcVars, appVars>>
    \/ \E k \in TimedKeySet :
         NoInflight /\ get(k) /\ UNCHANGED <<keyVars, svcVars, appVars>>
    \/ \E k \in TimedKeySet, v \in CacheValues, a \in TtlArgs :
         NoInflight /\ set(k, v, a) /\ UNCHANGED <<keyVars, svcVars, appVars>>
    \/ \E k \in TimedKeySet, a \in TtlArgs :
         NoInflight /\ getOrFetch_begin(1, k, a) /\ UNCHANGED <<keyVars, svcVars, appVars>>
    \/ \E v \in CacheValues :
         getOrFetch_resolve(1, v) /\ UNCHANGED <<keyVars, svcVars, appVars>>
    \/ getOrFetch_reject(1) /\ UNCHANGED <<keyVars, svcVars, appVars>>
    \/ \E k \in TimedKeySet :
         NoInflight /\ invalidate(k) /\ UNCHANGED <<keyVars, svcVars, appVars>>
    \/ NoInflight /\ cleanup /\ UNCHANGED <<keyVars, svcVars, appVars>>

SpecCache == CacheTimedInit /\ [][CacheTimedNext]_vars

----------------------------------------------------------------------------
(* Claims about the cache store under SpecCache *)

\* the value a key's history says a get at time t must return
Expected(h, t) == IF h # None /\ t - h[1].t <= h[1].ttl THEN h[1].v ELSE Null

\* C1: after set(k, v, ttl) or a getOrFetch that stored k, with no later set or
\* invalidation of k, get(k) returns v while the time elapsed since the store is
\* <= ttl and returns null once it is > ttl, whether or not cleanup() has run and
\* however many get calls came in between.
C1_TtlExpiry ==
    lastCall.op = "get" => lastCall.ret = Expected(lastCall.had, lastCall.at)

\* C1 witness: a get finds the entry of a stored non-null value still in the map,
\* with more than its ttl elapsed, and returns null.
C1_Witness ==
    /\ lastCall.op = "get"
    /\ lastCall.had # None
    /\ lastCall.had[1].v # Null
    /\ lastCall.at - lastCall.had[1].t > lastCall.had[1].ttl
    /\ lastCall.present
    /\ lastCall.ret = Null

\* C2 (as claimed): a getOrFetch(k, fn) that follows a getOrFetch which stored k,
\* within the ttl window and with no set or invalidation of k in between, does not
\* invoke fn and returns the stored value, whatever value fn returned.
C2_MemoizedWithinTtl ==
    ( /\ lastCall.op = "getOrFetch"
      /\ lastCall.had # None
      /\ lastCall.had[1].by = "getOrFetch"
      /\ lastCall.at - lastCall.had[1].t <= lastCall.had[1].ttl )
    => ( ~lastCall.fetched /\ lastCall.ret = lastCall.had[1].v )

----------------------------------------------------------------------------
(* SpecDeps: the dependency graph and pattern invalidation, within one ttl window *)

DepPatterns == {S_exercises \o Colon, S_exercise}

CacheDepsInit == CacheInit(CacheKeySet) /\ KeyIdle /\ SvcIdle

CacheDepsNext ==
    \/ \E k \in CacheKeySet : set(k, Val(1), None) /\ UNCHANGED <<keyVars, svcVars, appVars>>
    \/ \E k \in CacheKeySet : get(k) /\ UNCHANGED <<keyVars, svcVars, appVars>>
    \/ \E parent \in CacheKeySet, child \in CacheKeySet :
         addDependency(parent, child) /\ UNCHANGED <<keyVars, svcVars, appVars>>
    \/ \E k \in CacheKeySet : invalidate(k) /\ UNCHANGED <<keyVars, svcVars, appVars>>
    \/ \E pat \in DepPatterns : invalidatePattern(pat) /\ UNCHANGED <<keyVars, svcVars, appVars>>
    \/ clear /\ UNCHANGED <<keyVars, svcVars, appVars>>

SpecDeps == CacheDepsInit /\ [][CacheDepsNext]_vars

RECURSIVE ReachFrom(_, _)
\* the keys reachable from the keys S through any number of dependency edges
ReachFrom(d, S) ==
    LET N == S \cup UNION {depsOf(d, k) : k \in S}
    IN  IF N = S THEN S ELSE ReachFrom(d, N)

\* C8 (as claimed): invalidate(key) leaves in the cache neither key nor any key
\* reachable from key through the dependency graph by any number of edges.
C8_InvalidateTransitive ==
    lastCall.op = "invalidate" =>
        \A k \in ReachFrom(dependencies, {lastCall.key}) : k \notin DOMAIN cache

\* C9: invalidatePattern(p) removes every stored key that matches p and, when the
\* dependency graph is empty, leaves every other entry as it was; with
\* exercises:all, exercises:42 and exercise_tags:1 stored, invalidatePattern
\* ('exercises:') leaves exactly exercise_tags:1.
C9_PatternScope ==
    lastCall.op = "invalidatePattern" =>
        LET before == lastCall.had[1]
            pattern == lastCall.key
        IN  /\ \A k \in DOMAIN before : RegexTest(pattern, k) => k \notin DOMAIN cache
            /\ DOMAIN dependencies = {} =>
                 \A k \in DOMAIN before :
                    ~RegexTest(pattern, k) => (k \in DOMAIN cache /\ cache[k] = before[k])
            /\ ( /\ DOMAIN dependencies = {}
                 /\ pattern = S_exercises \o Colon
                 /\ DOMAIN before = {allExercises, exerciseById(42), exerciseTagsKey(1)} )
               => DOMAIN cache = {exerciseTagsKey(1)}

\* C9 witness: the three keys of the example were stored, the graph is empty, and
\* invalidatePattern('exercises:') has left only exercise_tags:1.
C9_Witness ==
    /\ lastCall.op = "invalidatePattern"
    /\ lastCall.key = S_exercises \o Colon
    /\ DOMAIN lastCall.had[1] = {allExercises, exerciseById(42), exerciseTagsKey(1)}
    /\ DOMAIN dependencies = {}
    /\ DOMAIN cache = {exerciseTagsKey(1)}

----------------------------------------------------------------------------
(* SpecKeys: which keys the policy patterns match *)

S_searchQuery == <<"s","e","a","r","c","h","Q","u","e","r","y">>
S_tagIds == <<"t","a","g","I","d","s">>
S_favoritesOnly == <<"f","a","v","o","r","i","t","e","s","O","n","l","y">>
S_true == <<"t","r","u","e">>
S_false == <<"f","a","l","s","e">>
Quote == <<"\"">>

RECURSIVE JoinNums(_)
\* Array.prototype.join(',') over numbers, as JSON.stringify writes an array
JoinNums(ns) ==
    IF ns = <<>> THEN <<>>
    ELSE IF Len(ns) = 1 THEN NumStr(ns[1])
    ELSE NumStr(ns[1]) \o <<",">> \o JoinNums(Tail(ns))

\* JSON.stringify of one property of an ExerciseFilter (strings without '"' or '\')
JsonField(f) ==
    IF f.name = "searchQuery" THEN Quote \o S_searchQuery \o Quote \o Colon \o Quote \o f.str \o Quote
    ELSE IF f.name = "tagIds" THEN Quote \o S_tagIds \o Quote \o Colon \o <<"[">> \o JoinNums(f.ids) \o <<"]">>
    ELSE Quote \o S_favoritesOnly \o Quote \o Colon \o (IF f.bool THEN S_true ELSE S_false)

RECURSIVE JsonFields(_)
JsonFields(fs) ==
    IF fs = <<>> THEN <<>>
    ELSE IF Len(fs) = 1 THEN JsonField(fs[1])
    ELSE JsonField(fs[1]) \o <<",">> \o JsonFields(Tail(fs))

\* JSON.stringify(filter): the properties in the order they were set on the object
JsonStringify(filter) == <<"{">> \o JsonFields(filter) \o <<"}">>

\* the cache key of getAllExercises(filter); None is `filter` omitted
exercisesKey(filterArg) ==
    IF filterArg = None THEN allExercises
    ELSE allExercises \o Colon \o JsonStringify(filterArg[1])

SearchQueries == {<<"a">>, S_tags \o Colon, S_sessions \o Colon, <<"b","e","n","c","h">>}
FSearch(q) == [name |-> "searchQuery", str |-> q]
FTags(ids) == [name |-> "tagIds", ids |-> ids]
FFav(b) == [name |-> "favoritesOnly", bool |-> b]

FilterArgs ==
    {None, Some(<<>>), Some(<<FFav(TRUE)>>), Some(<<FTags(<<1, 2>>)>>)}
    \cup {Some(<<FSearch(q)>>) : q \in SearchQueries}
    \cup {Some(<<FSearch(q), FFav(TRUE)>>) : q \in SearchQueries}
    \cup {Some(<<FFav(FALSE), FSearch(q)>>) : q \in SearchQueries}

KeyIds == {0, 1, 7, 42}
S_day1 == <<"2","0","2","4","-","0","3","-","0","1">>
S_day2 == <<"2","0","2","4","-","0","3","-","3","1">>

\* every key CacheKeys and the service key builders produce for these inputs
BuiltKeys ==
    {exercisesKey(f) : f \in FilterArgs}
    \cup {recentExercises, favoriteExercises, allTags, profileKey}
    \cup {exerciseById(i) : i \in KeyIds} \cup {exercisesByTag(i) : i \in KeyIds}
    \cup {tagById(i) : i \in KeyIds} \cup {sessionById(i) : i \in KeyIds}
    \cup {setsBySession(i) : i \in KeyIds} \cup {setsByExercise(i) : i \in KeyIds}
    \cup {sessionsByDate(S_day1), sessionsByDateRange(S_day1, S_day2),
          calendarMarkers(2024, 3), calendarMarkers(2024, 12)}

\* regex.test(key) for one key and one policy pattern
TestKey ==
    /\ matchOut = None
    /\ matchOut' = Some(RegexTest(patIn, keyIn))
    /\ UNCHANGED <<keyIn, patIn>>

KeysInit ==
    /\ keyIn \in BuiltKeys
    /\ patIn \in PolicyPatterns
    /\ matchOut = None
    /\ CacheInit({}) /\ SvcIdle

KeysNext == TestKey /\ UNCHANGED <<cacheVars, svcVars, appVars>>

SpecKeys == KeysInit /\ [][KeysNext]_vars

RECURSIVE FirstSegment(_)
\* the text of a key before its first ':' (the whole key when it has none)
FirstSegment(key) ==
    IF key = <<>> \/ Head(key) = ":" THEN <<>>
    ELSE <<Head(key)>> \o FirstSegment(Tail(key))

\* C10 (as claimed): a policy pattern '<category>:' matches a built key if and only
\* if the key's first colon-delimited segment is that category.
C10_PatternMatchesOwnNamespace ==
    matchOut # None => (matchOut[1] <=> (FirstSegment(keyIn) \o Colon = patIn))

----------------------------------------------------------------------------
(* The persistence engine: tables, statements, queries *)

Merge(r, u) == [f \in DOMAIN r |-> IF f \in DOMAIN u THEN u[f] ELSE r[f]]

RECURSIVE TrimLeft(_)
TrimLeft(str) == IF str # <<>> /\ Head(str) = " " THEN TrimLeft(Tail(str)) ELSE str

RECURSIVE TrimRight(_)
TrimRight(str) ==
    IF str # <<>> /\ str[Len(str)] = " " THEN TrimRight(SubSeq(str, 1, Len(str) - 1)) ELSE str

\* String.prototype.trim
Trim(str) == TrimRight(TrimLeft(str))

LowerChar(ch) == IF ch = "S" THEN "s" ELSE IF ch = "P" THEN "p" ELSE IF ch = "N" THEN "n" ELSE ch

\* the comparison key of a TEXT column declared COLLATE NOCASE
NoCase(str) == [i \in 1..Len(str) |-> LowerChar(str[i])]

S_day1before == <<"2","0","2","4","-","0","2","-","2","9">>
S_day2before == <<"2","0","2","4","-","0","3","-","3","0">>

\* fromDB.session reads the stored date as local midnight; toISOString().split('T')[0] of
\* that instant is the same day or the day before, by the device's time zone
isoDates(date) ==
    {date, IF date = S_day1 THEN S_day1before
           ELSE IF date = S_day2 THEN S_day2before ELSE date}

IsDigit(ch) == \E i \in 1..10 : Digits[i] = ch

\* /^\d{4}-\d{2}-\d{2}$/.test(date)
validDate(date) ==
    /\ Len(date) = 10
    /\ \A i \in 1..10 : IF i \in {5, 8} THEN date[i] = "-" ELSE IsDigit(date[i])

\* the database after initDatabase and some use: two exercises, one tag, two sessions
\* (the second without sets), one set and the recent_exercises row its insert left;
\* last_used is kept as the position of the insert in time
DbInit ==
    [ exercises     |-> (1 :> [name |-> <<"S">>, default_weight |-> None])
                        @@ (2 :> [name |-> <<"P">>, default_weight |-> None]),
      tags          |-> (1 :> [name |-> <<"L">>]),
      exercise_tags |-> {<<1, 1>>},
      sessions      |-> (1 :> [date |-> S_day1, time_of_day |-> Some("morning")])
                        @@ (2 :> [date |-> S_day2, time_of_day |-> None]),
      sets          |-> {[id |-> 1, session_id |-> 1, exercise_id |-> 1, set_order |-> 1,
                           weight |-> 5, reps |-> 5]},
      recent_exercises |-> (1 :> [last_used |-> 1, use_count |-> 1, last_weight |-> 5,
                                  last_reps |-> 5]),
      seq           |-> [exercises |-> 2, sets |-> 1, sessions |-> 2, tags |-> 1] ]

\* engine error texts
E_UNIQUE == "UNIQUE constraint failed"
E_FOREIGN == "FOREIGN KEY constraint failed"
E_NOTNULL == "NOT NULL constraint failed"
E_CHECK == "CHECK constraint failed"
E_NESTED == "cannot start a transaction within a transaction"
E_NOCOMMIT == "cannot commit - no transaction is active"
E_NOROLLBACK == "cannot rollback - no transaction is active"

StmtOk(d, rowid) == [ok |-> TRUE, db |-> d, err |-> "", rowid |-> rowid]
StmtErr(d, msg) == [ok |-> FALSE, db |-> d, err |-> msg, rowid |-> 0]

\* UPDATE exercises SET name = ?, default_weight = ? WHERE id = ? (None: column not in SET)
sqlUpdateExercise(d, id, nameArg, weightArg) ==
    IF id \notin DOMAIN d.exercises THEN StmtOk(d, 0)
    ELSE IF /\ nameArg # None
            /\ \E o \in (DOMAIN d.exercises) \ {id} :
                  NoCase(d.exercises[o].name) = NoCase(nameArg[1])
    THEN StmtErr(d, E_UNIQUE)
    ELSE StmtOk([d EXCEPT !.exercises[id] =
                    [name |-> IF nameArg # None THEN nameArg[1] ELSE @.name,
                     default_weight |-> IF weightArg # None THEN weightArg ELSE @.default_weight]],
                0)

\* DELETE FROM exercise_tags WHERE exercise_id = ?
sqlDeleteExerciseTags(d, id) ==
    StmtOk([d EXCEPT !.exercise_tags = {et \in d.exercise_tags : et[1] # id}], 0)

\* INSERT INTO exercise_tags (exercise_id, tag_id) VALUES (?, ?)
\* INSERT INTO tags (name, color) VALUES (?, ?): name TEXT NOT NULL UNIQUE COLLATE NOCASE
sqlInsertTag(d, name) ==
    IF \E t \in DOMAIN d.tags : NoCase(d.tags[t].name) = NoCase(name)
    THEN StmtErr(d, E_UNIQUE)
    ELSE LET id == d.seq.tags + 1
         IN  StmtOk([d EXCEPT !.tags = @ @@ (id :> [name |-> name]), !.seq.tags = id], id)

\* UPDATE tags SET name = ? WHERE id = ? (no row: nothing changes)
sqlUpdateTag(d, id, name) ==
    IF id \notin DOMAIN d.tags THEN StmtOk(d, 0)
    ELSE IF \E t \in (DOMAIN d.tags) \ {id} : NoCase(d.tags[t].name) = NoCase(name)
    THEN StmtErr(d, E_UNIQUE)
    ELSE StmtOk([d EXCEPT !.tags[id].name = name], 0)

\* DELETE FROM tags WHERE id = ? (exercise_tags cascade)
sqlDeleteTag(d, id) ==
    StmtOk([d EXCEPT !.tags = [t \in (DOMAIN @) \ {id} |-> @[t]],
                     !.exercise_tags = {et \in @ : et[2] # id}], 0)

sqlInsertExerciseTag(d, id, tagId) ==
    IF <<id, tagId>> \in d.exercise_tags THEN StmtErr(d, E_UNIQUE)
    ELSE IF id \notin DOMAIN d.exercises \/ tagId \notin DOMAIN d.tags THEN StmtErr(d, E_FOREIGN)
    ELSE StmtOk([d EXCEPT !.exercise_tags = @ \cup {<<id, tagId>>}], 0)

\* INSERT INTO exercises (name, ..., default_weight, ...): AUTOINCREMENT row id
sqlInsertExercise(d, name, weight) ==
    IF \E o \in DOMAIN d.exercises : NoCase(d.exercises[o].name) = NoCase(name)
    THEN StmtErr(d, E_UNIQUE)
    ELSE LET id == d.seq.exercises + 1
         IN  StmtOk([d EXCEPT !.exercises = @ @@ (id :> [name |-> name,
                                                          default_weight |-> weight]),
                              !.seq.exercises = id], id)

\* DELETE FROM exercises WHERE id = ? (exercise_tags cascade, sets do not)
sqlDeleteExercise(d, id) ==
    IF \E r \in d.sets : r.exercise_id = id THEN StmtErr(d, E_FOREIGN)
    ELSE StmtOk([d EXCEPT !.exercises = [i \in (DOMAIN @) \ {id} |-> @[i]],
                          !.exercise_tags = {et \in @ : et[1] # id},
                          !.recent_exercises = [i \in (DOMAIN @) \ {id} |-> @[i]]], 0)

update_recent_exercises_replace(d, exerciseId, weight, reps, at) ==
    [d EXCEPT !.recent_exercises =
        [e \in (DOMAIN d.recent_exercises) \cup {exerciseId} |->
            IF e = exerciseId
            THEN [last_used |-> at, use_count |-> 1, last_weight |-> weight,
                  last_reps |-> reps]
            ELSE d.recent_exercises[e]]]

\* trigger update_recent_exercises, AFTER INSERT ON sets: INSERT OR REPLACE INTO
\* recent_exercises with COALESCE((SELECT use_count ...), 0) + 1
update_recent_exercises(d, exerciseId, weight, reps, at) ==
    [d EXCEPT !.recent_exercises =
        [e \in (DOMAIN d.recent_exercises) \cup {exerciseId} |->
            IF e = exerciseId
            THEN [last_used |-> at,
                  use_count |-> (IF e \in DOMAIN d.recent_exercises
                                 THEN d.recent_exercises[e].use_count ELSE 0) + 1,
                  last_weight |-> weight, last_reps |-> reps]
            ELSE d.recent_exercises[e]]]

\* INSERT INTO sets (session_id, exercise_id, ..., set_order) VALUES (?, ?, ..., ?)
\* weight REAL NOT NULL CHECK(weight >= 0), reps INTEGER NOT NULL CHECK(reps >= 0)
sqlInsertSet(d, sessionId, exerciseId, setOrder, weight, reps) ==
    IF weight < 0 \/ reps < 0
    THEN StmtErr(d, E_CHECK)
    ELSE IF sessionId \notin DOMAIN d.sessions \/ exerciseId \notin DOMAIN d.exercises
    THEN StmtErr(d, E_FOREIGN)
    ELSE LET id == d.seq.sets + 1
         IN  StmtOk(update_recent_exercises(
                        [d EXCEPT !.sets = @ \cup {[id |-> id, session_id |-> sessionId,
                                                    exercise_id |-> exerciseId,
                                                    set_order |-> setOrder,
                                                    weight |-> weight, reps |-> reps]},
                                  !.seq.sets = id],
                        exerciseId, weight, reps, id), id)

\* UPDATE sets SET weight = ?, reps = ? WHERE id = ? (None: the column is not in the SET list)
sqlUpdateSet(d, id, weightArg, repsArg) ==
    IF \E r \in d.sets : /\ r.id = id
                          /\ \/ (weightArg # None /\ weightArg[1] < 0)
                             \/ (repsArg # None /\ repsArg[1] < 0)
    THEN StmtErr(d, E_CHECK)
    ELSE StmtOk([d EXCEPT !.sets =
                    {IF r.id = id
                     THEN [r EXCEPT !.weight = IF weightArg = None THEN @ ELSE weightArg[1],
                                    !.reps = IF repsArg = None THEN @ ELSE repsArg[1]]
                     ELSE r : r \in @}], 0)

\* DELETE FROM sets WHERE id = ?
sqlDeleteSet(d, id) == StmtOk([d EXCEPT !.sets = {r \in @ : r.id # id}], 0)

TimesOfDay == {"morning", "afternoon", "evening"}

\* INSERT INTO workout_sessions (date, time_of_day) VALUES (?, ?): time_of_day is checked
\* against the three names or NULL; UNIQUE(date, time_of_day) compares NULLs as distinct
sqlInsertSession(d, date, timeOfDay) ==
    IF timeOfDay # None /\ timeOfDay[1] \notin TimesOfDay
    THEN StmtErr(d, E_CHECK)
    ELSE IF /\ timeOfDay # None
       /\ \E o \in DOMAIN d.sessions :
             d.sessions[o].date = date /\ d.sessions[o].time_of_day = timeOfDay
    THEN StmtErr(d, E_UNIQUE)
    ELSE LET id == d.seq.sessions + 1
         IN  StmtOk([d EXCEPT !.sessions = @ @@ (id :> [date |-> date,
                                                         time_of_day |-> timeOfDay]),
                              !.seq.sessions = id], id)

\* DELETE FROM workout_sessions WHERE id = ? (sets cascade)
sqlDeleteSession(d, id) ==
    StmtOk([d EXCEPT !.sessions = [i \in (DOMAIN @) \ {id} |-> @[i]],
                     !.sets = {r \in @ : r.session_id # id}], 0)

Min(S) == CHOOSE x \in S : \A y \in S : x <= y
Max(S) == CHOOSE x \in S : \A y \in S : x >= y

selectSessionId_none(d, date, timeOfDay) == None

\* SELECT id FROM workout_sessions WHERE date = ? AND time_of_day = ? / IS NULL (getFirst)
selectSessionId(d, date, timeOfDay) ==
    LET ids == {i \in DOMAIN d.sessions :
                   d.sessions[i].date = date /\ d.sessions[i].time_of_day = timeOfDay}
    IN  IF ids = {} THEN None ELSE Some(Min(ids))

\* SELECT MAX(set_order) as max_order FROM sets WHERE session_id = ? (None is NULL)
selectMaxOrder(d, sessionId) ==
    LET orders == {r.set_order : r \in {x \in d.sets : x.session_id = sessionId}}
    IN  IF orders = {} THEN None ELSE Some(Max(orders))

\* SELECT * FROM sets WHERE id = ? (getFirst)
selectSet(d, id) ==
    IF \E r \in d.sets : r.id = id THEN Some(CHOOSE r \in d.sets : r.id = id) ELSE None

\* SELECT * FROM workout_sessions WHERE id = ? mapped by fromDB.session (Null: no row)
selectSession(d, id) ==
    IF id \in DOMAIN d.sessions
    THEN [kind |-> "session", row |-> [id |-> id, date |-> d.sessions[id].date,
                                       timeOfDay |-> d.sessions[id].time_of_day]]
    ELSE Null

RECURSIVE SortedIds(_)
\* the ids of a group in the order the engine visits them
SortedIds(S) == IF S = {} THEN <<>> ELSE <<Min(S)>> \o SortedIds(S \ {Min(S)})

RECURSIVE GroupConcat(_)
\* GROUP_CONCAT(x): the values of the group joined with ','
GroupConcat(ss) ==
    IF ss = <<>> THEN <<>>
    ELSE IF Len(ss) = 1 THEN ss[1]
    ELSE ss[1] \o <<",">> \o GroupConcat(Tail(ss))

RECURSIVE SplitComma(_)
\* String.prototype.split(',')
SplitComma(str) ==
    IF \A i \in 1..Len(str) : str[i] # "," THEN <<str>>
    ELSE LET i == Min({j \in 1..Len(str) : str[j] = ","})
         IN  <<SubSeq(str, 1, i - 1)>> \o SplitComma(SubSeq(str, i + 1, Len(str)))

tagNamesOf_direct(d, ids) == {<<ids[k], d.tags[ids[k]].name>> : k \in 1..Len(ids)}

\* ids.map((id, index) => ({id, name: names[index], ...})) over the split columns
tagNamesOf(d, ids) ==
    LET names == SplitComma(GroupConcat([k \in 1..Len(ids) |-> d.tags[ids[k]].name]))
    IN  {<<ids[k], names[k]>> : k \in 1..Len(ids)}

\* getAllExercises: the SELECT with its joins, rows mapped by fromDB.exercise plus tags
\* (tags: the ids; tagNames: each id with the name the parsed tag carries)
queryAllExercises(d) ==
    [kind |-> "exercises",
     rows |-> [i \in DOMAIN d.exercises |->
                 LET ts == {t \in DOMAIN d.tags : <<i, t>> \in d.exercise_tags}
                 IN  [id |-> i, name |-> d.exercises[i].name,
                      defaultWeight |-> d.exercises[i].default_weight,
                      tags |-> ts,
                      tagNames |-> tagNamesOf(d, SortedIds(ts))]]]

RECURSIVE recentOrder(_, _)
\* ORDER BY re.last_used DESC: the exercise ids of the rows, latest first
recentOrder(d, S) ==
    IF S = {} THEN <<>>
    ELSE LET e == CHOOSE x \in S : \A y \in S : d.recent_exercises[x].last_used
                                                  >= d.recent_exercises[y].last_used
         IN  <<e>> \o recentOrder(d, S \ {e})

\* getRecentExercises: recent_exercises joined with exercises, latest first, LIMIT ?
queryRecentExercises(d, limit) ==
    LET all == recentOrder(d, (DOMAIN d.recent_exercises) \cap (DOMAIN d.exercises))
    IN  [kind |-> "recent",
         rows |-> [k \in 1..(IF limit < Len(all) THEN limit ELSE Len(all)) |->
                     [id |-> all[k], name |-> d.exercises[all[k]].name]]]

\* getAllTags: SELECT * FROM tags
queryAllTags(d) ==
    [kind |-> "tags", rows |-> {[id |-> t, name |-> d.tags[t].name] : t \in DOMAIN d.tags}]

\* getSessionSets: sets of the session joined with the exercise name
querySessionSets(d, sessionId) ==
    [kind |-> "sets",
     rows |-> {[id |-> r.id, exerciseId |-> r.exercise_id,
                exerciseName |-> d.exercises[r.exercise_id].name,
                weight |-> r.weight, reps |-> r.reps] :
                   r \in {x \in d.sets : x.session_id = sessionId
                                          /\ x.exercise_id \in DOMAIN d.exercises}}]

\* the position of a character of a date in the collating order ('-' sorts before digits)
CharCode(ch) == IF ch = "-" THEN 0 ELSE CHOOSE i \in 1..10 : Digits[i] = ch

RECURSIVE TextLE(_, _)
\* a <= b as the engine compares TEXT values (bytewise)
TextLE(a, b) ==
    IF a = <<>> THEN TRUE
    ELSE IF b = <<>> THEN FALSE
    ELSE IF a[1] = b[1] THEN TextLE(Tail(a), Tail(b))
    ELSE CharCode(a[1]) < CharCode(b[1])

\* the date ranges callers ask for, by position: <<startDate, endDate>>
DateRanges == << <<S_day1, S_day1>>, <<S_day1before, S_day2>> >>

RECURSIVE sumVolume(_)
\* SUM(s.weight * s.reps)
sumVolume(rows) ==
    IF rows = {} THEN 0
    ELSE LET r == CHOOSE x \in rows : TRUE
         IN  r.weight * r.reps + sumVolume(rows \ {r})

RECURSIVE distinctInOrder(_, _)
\* GROUP_CONCAT(DISTINCT e.name): each name once, in the order the rows are visited
distinctInOrder(names, seen) ==
    IF names = <<>> THEN <<>>
    ELSE IF names[1] \in seen THEN distinctInOrder(Tail(names), seen)
    ELSE <<names[1]>> \o distinctInOrder(Tail(names), seen \cup {names[1]})

\* getSessionsForDateRange: the SELECT with its joins and GROUP BY ws.id, rows mapped by
\* fromDB.session plus setCount, exerciseNames and totalVolume
querySessionsForDateRange(d, startDate, endDate) ==
    [kind |-> "sessions",
     rows |-> {LET own == {x \in d.sets : x.session_id = i}
                   ids == SortedIds({x.id : x \in own})
                   nameOf(sid) == d.exercises[(CHOOSE x \in own : x.id = sid).exercise_id].name
                   names == distinctInOrder([k \in 1..Len(ids) |-> nameOf(ids[k])], {})
               IN  [id |-> i, date |-> d.sessions[i].date,
                    timeOfDay |-> d.sessions[i].time_of_day,
                    setCount |-> Cardinality(own),
                    exerciseNames |-> IF names = <<>> THEN <<>>
                                      ELSE SplitComma(GroupConcat(names)),
                    totalVolume |-> sumVolume(own)] :
                 i \in {j \in DOMAIN d.sessions :
                           /\ TextLE(startDate, d.sessions[j].date)
                           /\ TextLE(d.sessions[j].date, endDate)}}]

\* an error message is a sequence of text fragments; String.prototype.includes
includes(msg, text) == \E i \in 1..Len(msg) : msg[i] = text

Thrown(kind, msg) == [kind |-> kind, msg |-> msg]
NoErr == Thrown("", <<>>)

\* executeRun: an engine failure is rethrown as DatabaseError('Run failed: ' + message)
runFailed(text) == Thrown("DatabaseError", <<"Run failed: ", text>>)

\* parseSQLiteError: the domain error kind chosen from the message text
parseSQLiteError(msg) ==
    IF includes(msg, E_UNIQUE) THEN "DuplicateError"
    ELSE IF includes(msg, E_FOREIGN) THEN "ConstraintError"
    ELSE IF includes(msg, E_NOTNULL) THEN "ValidationError"
    ELSE IF includes(msg, E_CHECK) THEN "ValidationError"
    ELSE "DatabaseError"

\* ROLLBACK: the connection returns to the state at BEGIN
rollbackDb_keep(snap, d) == d

rollbackDb(snap, d) == IF snap # None THEN snap[1] ELSE d

----------------------------------------------------------------------------
(* CacheInvalidation *)

onExerciseChange_patternonly(c, d, idArg) ==
    invalidatePattern_cache(c, d, S_exercises \o Colon)

onExerciseChange_exact(c, d, idArg) ==
    IF idArg # None /\ idArg[1] # 0
    THEN invalidate_cache(invalidate_cache(c, d, exerciseById(idArg[1])), d,
                          setsByExercise(idArg[1]))
    ELSE c

\* onExerciseChange(exerciseId?): None is the argument omitted
onExerciseChange(c, d, idArg) ==
    LET c1 == invalidatePattern_cache(c, d, S_exercises \o Colon)
    IN  IF idArg # None /\ idArg[1] # 0
        THEN invalidate_cache(invalidate_cache(c1, d, exerciseById(idArg[1])), d,
                              setsByExercise(idArg[1]))
        ELSE c1

onTagChange_tagsonly(c, d, idArg) ==
    LET c1 == invalidatePattern_cache(c, d, S_tags \o Colon)
    IN  IF idArg # None /\ idArg[1] # 0
        THEN invalidate_cache(invalidate_cache(c1, d, tagById(idArg[1])), d,
                              exercisesByTag(idArg[1]))
        ELSE c1

\* onTagChange(tagId?): None is the argument omitted
onTagChange(c, d, idArg) ==
    LET c1 == invalidatePattern_cache(c, d, S_tags \o Colon)
        c2 == invalidatePattern_cache(c1, d, S_exercises \o Colon)
    IN  IF idArg # None /\ idArg[1] # 0
        THEN invalidate_cache(invalidate_cache(c2, d, tagById(idArg[1])), d,
                              exercisesByTag(idArg[1]))
        ELSE c2

onSessionChange_sessionsonly(c, d, idArg, dateArg) ==
    invalidatePattern_cache(invalidatePattern_cache(c, d, S_sessions \o Colon), d,
                            S_calendar \o Colon)

\* onSessionChange(sessionId?, date?): None is an argument omitted, '' is falsy
onSessionChange(c, d, idArg, dateArg) ==
    LET c1 == invalidatePattern_cache(c, d, S_sessions \o Colon)
        c2 == invalidatePattern_cache(c1, d, S_calendar \o Colon)
        c3 == IF idArg # None /\ idArg[1] # 0
              THEN invalidate_cache(invalidate_cache(c2, d, sessionById(idArg[1])), d,
                                    setsBySession(idArg[1]))
              ELSE c2
    IN  IF dateArg # None /\ dateArg[1] # <<>>
        THEN invalidate_cache(c3, d, sessionsByDate(dateArg[1]))
        ELSE c3

onSetChange_nosession(c, d, sessionId, exerciseId) ==
    invalidate_cache(
        invalidate_cache(invalidate_cache(c, d, setsBySession(sessionId)), d,
                         setsByExercise(exerciseId)),
        d, recentExercises)

onSetChange_nosets(c, d, sessionId, exerciseId) ==
    invalidate_cache(
        invalidate_cache(invalidate_cache(c, d, setsByExercise(exerciseId)), d,
                         recentExercises),
        d, sessionById(sessionId))

\* onSetChange(sessionId, exerciseId)
onSetChange(c, d, sessionId, exerciseId) ==
    invalidate_cache(
        invalidate_cache(
            invalidate_cache(invalidate_cache(c, d, setsBySession(sessionId)), d,
                             setsByExercise(exerciseId)),
            d, recentExercises),
        d, sessionById(sessionId))

----------------------------------------------------------------------------
(* ExerciseService: operations of a caller as steps between suspension points *)

Procs == {1, 2}

Data(n, w, t) == [name |-> n, defaultWeight |-> w, tagIds |-> t]
NoData == Data(None, None, None)

Stmt(s, id, name, w, tag) == [s |-> s, id |-> id, name |-> name, w |-> w, tag |-> tag]

\* a statement on the sets table with its weight and reps parameters
SetStmt(s, id, exerciseId, setOrder, weight, reps) ==
    [s |-> s, id |-> id, name |-> None, w |-> setOrder, tag |-> exerciseId,
     weight |-> weight, reps |-> reps]

\* one statement on the connection; id 0 in a tag insert is lastInsertRowId
execStmt(d, st, newId) ==
    CASE st.s = "updateExercise" -> sqlUpdateExercise(d, st.id, st.name, st.w)
      [] st.s = "deleteTags"     -> sqlDeleteExerciseTags(d, st.id)
      [] st.s = "insertTag"      ->
            sqlInsertExerciseTag(d, IF st.id = 0 THEN newId ELSE st.id, st.tag)
      [] st.s = "insertExercise" -> sqlInsertExercise(d, st.name[1], st.w)
      [] st.s = "insertSet"      ->
            sqlInsertSet(d, st.id, st.tag, st.w[1], st.weight, st.reps)
      [] st.s = "updateSet"      -> sqlUpdateSet(d, st.id, st.weight, st.reps)
      [] st.s = "insertTagRow"   -> sqlInsertTag(d, st.name[1])
      [] st.s = "updateTagRow"   -> sqlUpdateTag(d, st.id, st.name[1])
      [] st.s = "deleteTagRow"   -> sqlDeleteTag(d, st.id)
      [] st.s = "deleteExercise" -> sqlDeleteExercise(d, st.id)
      [] st.s = "insertSession"  -> sqlInsertSession(d, st.name[1], st.w)
      [] st.s = "deleteSet"      -> sqlDeleteSet(d, st.id)
      [] st.s = "deleteSession"  -> sqlDeleteSession(d, st.id)
      [] OTHER                   -> StmtErr(d, "Intentional error to test rollback")

tagInserts(id, tagIds) ==
    [i \in 1..Len(tagIds) |-> Stmt("insertTag", id, None, None, tagIds[i])]

\* updateExercise: the statements its transaction callback issues, in order
updateStatements(id, data) ==
    (IF data.name # None \/ data.defaultWeight # None
     THEN <<Stmt("updateExercise", id,
                 IF data.name # None THEN Some(Trim(data.name[1])) ELSE None,
                 data.defaultWeight, 0)>>
     ELSE <<>>)
    \o (IF data.tagIds # None
        THEN <<Stmt("deleteTags", id, None, None, 0)>> \o tagInserts(id, data.tagIds[1])
        ELSE <<>>)

\* `data.defaultWeight || null`
orNull(w) == IF w = None \/ w[1] = 0 THEN None ELSE w

\* createExercise: the statements its transaction callback issues, in order
createStatements(data) ==
    <<Stmt("insertExercise", 0, Some(Trim(data.name[1])), orNull(data.defaultWeight), 0)>>
    \o (IF data.tagIds # None THEN tagInserts(0, data.tagIds[1]) ELSE <<>>)

\* the transaction rollback test: one insert, then the callback throws
rollbackTestStatements ==
    <<SetStmt("insertSet", 1, 1, Some(4), 80, 3), Stmt("throw", 0, None, None, 0)>>

\* updateExercise: the checks before the unit
updateInvalid(data) ==
    \/ data.name # None /\ Len(Trim(data.name[1])) = 0
    \/ data.defaultWeight # None /\ data.defaultWeight[1] < 0

\* createExercise: the checks before the unit
createInvalid(data) ==
    \/ data.name = None
    \/ Len(Trim(data.name[1])) = 0
    \/ data.defaultWeight # None /\ data.defaultWeight[1] < 0

\* the catch block of each operation: the error kind the caller receives
caughtAs(op, e) ==
    IF op = "rollbackTest" THEN "Error"
    ELSE IF op \in {"updateExercise"} /\ e.kind \in {"NotFoundError", "ValidationError"}
    THEN e.kind
    ELSE IF op \in {"updateExercise", "updateSet"}
            /\ e.kind \in {"NotFoundError", "ValidationError"}
    THEN e.kind
    ELSE IF op \in {"getExerciseById", "deleteExercise", "getSessionById", "deleteSession",
                    "deleteSet"} /\ e.kind = "NotFoundError"
    THEN e.kind
    ELSE IF op \in {"getOrCreateSession", "addSet", "updateTag"} /\ e.kind = "ValidationError"
    THEN e.kind
    ELSE parseSQLiteError(e.msg)

unitNextPc_early(ok, rest) ==
    IF ~ok THEN "rollback" ELSE IF rest = <<>> THEN "inval" ELSE "stmt"

\* withTransactionAsync around the callback: where control goes after a statement
unitNextPc(ok, rest) ==
    IF ~ok THEN "rollback" ELSE IF rest = <<>> THEN "commit" ELSE "stmt"

WriteOps == {"updateExercise", "createExercise", "deleteExercise", "rollbackTest"}
ReadOps == {"getAllExercises", "getExerciseById", "getSessionSets", "getSessionById",
            "getAllTags", "getRecentExercises", "getSessionsForDateRange"}
\* reads that are one getOrFetch on one key (deleteSession starts with getSessionById)
KeyedReads == {"getAllExercises", "getSessionSets", "getSessionById", "deleteSession",
               "getAllTags", "getRecentExercises", "getSessionsForDateRange"}

\* the cache key of a read operation
readKey(op, id) ==
    IF op = "getAllExercises" THEN allExercises
    ELSE IF op = "getSessionSets" THEN setsBySession(id)
    ELSE IF op \in {"getSessionById", "deleteSession"} THEN sessionById(id)
    ELSE IF op = "getAllTags" THEN allTags
    ELSE IF op = "getRecentExercises" THEN recentExercises
    ELSE IF op = "getSessionsForDateRange"
    THEN sessionsByDateRange(DateRanges[id][1], DateRanges[id][2])
    ELSE exerciseById(id)

Idle ==
    [op |-> "idle", pc |-> "idle", id |-> 0, data |-> NoData, rows |-> Null, rest |-> <<>>,
     newId |-> 0, wrote |-> 0, err |-> NoErr, unit |-> 0, committed |-> FALSE, inv |-> FALSE,
     invOpen |-> FALSE, pre |-> None, post |-> None, fetched |-> FALSE, queried |-> FALSE,
     first |-> FALSE, firstAll |-> FALSE,
     after |-> None, abort |-> None, dirty |-> None,
     date |-> <<>>, tod |-> None, eid |-> 0, sid |-> 0, wr |-> <<0, 0>>, order |-> 0,
     prior |-> {}, upd |-> <<None, None>>, calls |-> 0]

\* what a completed operation handed to its caller, with the history of the call
Result(pr, status, val) ==
    [op |-> pr.op, id |-> pr.id, data |-> pr.data, status |-> status, val |-> val,
     wrote |-> pr.wrote, committed |-> pr.committed, inv |-> pr.inv, invOpen |-> pr.invOpen,
     pre |-> pr.pre, post |-> pr.post, fetched |-> pr.fetched, queried |-> pr.queried,
     first |-> pr.first, firstAll |-> pr.firstAll,
     after |-> pr.after, abort |-> pr.abort, dirty |-> pr.dirty,
     date |-> pr.date, tod |-> pr.tod, eid |-> pr.eid, sid |-> pr.sid, wr |-> pr.wr,
     order |-> pr.order, prior |-> pr.prior, upd |-> pr.upd, calls |-> pr.calls,
     err |-> pr.err]

NoResult == Result(Idle, "", Null)

HistInit ==
    [lastUpdate |-> None, reread |-> {}, lastAbort |-> None, unitNo |-> 0,
     aborted |-> {}, prov |-> {}, resolved |-> {}, addLog |-> <<>>, removed |-> {},
     lastInval |-> None, notFound |-> {}, created |-> {}]

\* which cache entries were computed from rows a still-open unit had written
SetProv(prov, key, dirty) ==
    {r \in prov : r.key # key}
    \cup (IF dirty = None THEN {}
          ELSE {[key |-> key, u |-> dirty[1].u, ids |-> dirty[1].ids]})

ProvOf(prov, key) ==
    IF \E r \in prov : r.key = key
    THEN LET r == CHOOSE x \in prov : x.key = key IN Some([u |-> r.u, ids |-> r.ids])
    ELSE None

\* the ids whose rows differ between the connection's view and the state at BEGIN
dirtyIds(live, committed) ==
    IF live.kind \in {"session", "null", "recent"}
    THEN (IF live = committed THEN {} ELSE {0})
    ELSE IF live.kind = "exercises"
    THEN {i \in DOMAIN live.rows :
             i \notin DOMAIN committed.rows \/ live.rows[i] # committed.rows[i]}
    ELSE IF live.rows \subseteq committed.rows THEN {} ELSE {0}

svcFrame ==
    UNCHANGED <<dependencies, now, ticks, inflight, lastCall, stored, edges, keyIn, patIn, matchOut,
                cleanupInterval, intervals, service, callers>>

\* the operation returns (or throws) to its caller
Finish(P, p, pr, status, val) ==
    /\ proc' = [P EXCEPT ![p] = Idle]
    /\ res' = [res EXCEPT ![p] = Result(pr, status, val)]

\* the operation suspends at its next await
Goto(P, p, pr) ==
    /\ proc' = [P EXCEPT ![p] = pr]
    /\ res' = res

\* after `await this.getExerciseById(id)` resolved or threw: the rest of the caller's
\* synchronous code up to its next await
afterCheck(P, p, pr, found, val) ==
    IF ~found
    THEN Finish(P, p, pr, caughtAs(pr.op, Thrown("NotFoundError", <<"Exercise not found">>)), Null)
    ELSE IF pr.op = "updateExercise"
    THEN IF updateInvalid(pr.data)
         THEN Finish(P, p, pr,
                     caughtAs(pr.op, Thrown("ValidationError",
                                            <<"Exercise name cannot be empty">>)), Null)
         ELSE Goto(P, p, Merge(pr, [pc |-> "begin", rest |-> updateStatements(pr.id, pr.data),
                                    dirty |-> None]))
    ELSE IF pr.op = "deleteExercise"
    THEN Goto(P, p, Merge(pr, [pc |-> "run", dirty |-> None,
                               rest |-> <<Stmt("deleteExercise", pr.id, None, None, 0)>>]))
    ELSE IF pr.op = "deleteSession"
    THEN Goto(P, p, Merge(pr, [pc |-> "run", dirty |-> None, date |-> val.row.date,
                               rest |-> <<Stmt("deleteSession", pr.id, None, None, 0)>>]))
    ELSE Finish(P, p, pr, "ok", val)

\* the by-id reads that signalled NotFound so far
missedRead(pr) == IF pr.op \in ReadOps THEN {<<pr.op, pr.id>>} ELSE {}

\* getExerciseById's fetch function once getAllExercises has returned `all`:
\* find the exercise, store it under exercises:<id> (or throw NotFound)
byIdContinue(P, p, pr, c, h, all, allDirty) ==
    IF pr.id \in DOMAIN all.rows
    THEN LET ex == [kind |-> "exercise", row |-> all.rows[pr.id]]
             exDirty == IF allDirty # None /\ pr.id \in allDirty[1].ids THEN allDirty ELSE None
         IN  /\ cache' = set_cache(c, exerciseById(pr.id), ex, None, now)
             /\ hist' = [h EXCEPT !.prov = SetProv(@, exerciseById(pr.id), exDirty)]
             /\ afterCheck(P, p, Merge(pr, [dirty |-> exDirty]), TRUE, ex)
    ELSE /\ cache' = c
         /\ hist' = [h EXCEPT !.notFound = @ \cup missedRead(pr)]
         /\ afterCheck(P, p, Merge(pr, [dirty |-> None]), FALSE, Null)

\* the synchronous start of a cached read, up to its first suspension
enterRead(P, p, pr, h) ==
    IF pr.op \in KeyedReads
    THEN LET k == readKey(pr.op, pr.id)
             cached == get_result(cache, k, now)
         IN  /\ cache' = get_cache(cache, k, now)
             /\ hist' = h
             /\ IF cached # Null
                THEN afterCheck(P, p, Merge(pr, [dirty |-> ProvOf(h.prov, k)]), TRUE, cached)
                ELSE Goto(P, p, Merge(pr, [pc |-> "query", fetched |-> TRUE]))
    ELSE LET k == exerciseById(pr.id)
             cached == get_result(cache, k, now)
             c1 == get_cache(cache, k, now)
             all == get_result(c1, allExercises, now)
             c2 == get_cache(c1, allExercises, now)
         IN  IF cached # Null
             THEN /\ cache' = c1
                  /\ hist' = h
                  /\ afterCheck(P, p, Merge(pr, [dirty |-> ProvOf(h.prov, k)]), TRUE, cached)
             ELSE IF all # Null
             THEN byIdContinue(P, p, Merge(pr, [fetched |-> TRUE]), c2, h, all,
                               ProvOf(h.prov, allExercises))
             ELSE /\ cache' = c2
                  /\ hist' = h
                  /\ Goto(P, p, Merge(pr, [pc |-> "query", fetched |-> TRUE]))

\* a caller starts getAllExercises(), getExerciseById(id) or getSessionSets(id)
readStart(p, op, id) ==
    /\ proc[p] = Idle
    /\ ops < MaxOps
    /\ ops' = ops + 1
    /\ LET known == hist.lastUpdate # None
           \* the service methods this call invokes before its first suspension
           invoked == IF op = "getExerciseById" /\ get_result(cache, exerciseById(id), now) = Null
                      THEN {<<op, id>>, <<"getAllExercises", 0>>}
                      ELSE {<<op, id>>}
           pr == Merge(Idle, [op |-> op, id |-> id, after |-> hist.lastUpdate,
                              abort |-> hist.lastAbort,
                              first |-> known /\ <<op, id>> \notin hist.reread,
                              firstAll |-> /\ known
                                           /\ <<"getAllExercises", 0>> \in invoked
                                           /\ <<"getAllExercises", 0>> \notin hist.reread])
           h == [hist EXCEPT !.reread = IF known THEN @ \cup invoked ELSE @]
       IN  enterRead(proc, p, pr, h)
    /\ UNCHANGED <<db, txSnap>>
    /\ svcFrame

\* a caller starts updateExercise, createExercise, deleteExercise, deleteSession or the
\* rollback test
writeStart(p, op, id, data) ==
    /\ proc[p] = Idle
    /\ ops < MaxOps
    /\ ops' = ops + 1
    /\ LET P == [q \in Procs |-> Merge(proc[q], [after |-> None, abort |-> None,
                                                 first |-> FALSE, firstAll |-> FALSE])]
           pr == Merge(Idle, [op |-> op, id |-> id, data |-> data])
           h == [hist EXCEPT !.lastUpdate = None, !.reread = {}, !.lastAbort = None]
       IN  IF op \in {"updateExercise", "deleteExercise", "deleteSession"}
           THEN enterRead(P, p, pr, h)
           ELSE /\ cache' = cache
                /\ hist' = h
                /\ IF op = "createExercise" /\ createInvalid(data)
                   THEN Finish(P, p, pr,
                               caughtAs(op, Thrown("ValidationError",
                                                   <<"Exercise name is required">>)), Null)
                   ELSE Goto(P, p, Merge(pr, [pc |-> "begin",
                                              rest |-> IF op = "createExercise"
                                                       THEN createStatements(data)
                                                       ELSE rollbackTestStatements]))
    /\ UNCHANGED <<db, txSnap>>
    /\ svcFrame

getOrFetch_store_absence(p) ==
    /\ proc[p].pc = "store"
    /\ LET pr == proc[p]
           k == IF pr.op \in KeyedReads THEN readKey(pr.op, pr.id) ELSE exerciseById(pr.id)
           found == pr.rows # Null /\ (pr.op \in KeyedReads \/ pr.id \in DOMAIN pr.rows.rows)
       IN  /\ cache' = set_cache(cache, k, IF found THEN pr.rows ELSE Null, None, now)
           /\ hist' = [hist EXCEPT !.notFound = IF found THEN @ ELSE @ \cup missedRead(pr)]
           /\ afterCheck(proc, p, pr, found, pr.rows)
    /\ UNCHANGED <<db, txSnap, ops>>
    /\ svcFrame

\* the SELECT of a cached read
fetchRows(d, op, id) ==
    IF op = "getSessionSets" THEN querySessionSets(d, id)
    ELSE IF op = "getSessionsForDateRange"
    THEN querySessionsForDateRange(d, DateRanges[id][1], DateRanges[id][2])
    ELSE IF op \in {"getSessionById", "deleteSession"} THEN selectSession(d, id)
    ELSE IF op = "getAllTags" THEN queryAllTags(d)
    ELSE IF op = "getRecentExercises" THEN queryRecentExercises(d, id)
    ELSE queryAllExercises(d)

\* executeQuery / getFirst inside a fetch function: the engine runs the SELECT on the
\* shared connection
executeQuery(p) ==
    /\ proc[p].pc = "query"
    /\ LET pr == proc[p]
           rows == fetchRows(db, pr.op, pr.id)
           base == fetchRows(txSnap[1], pr.op, pr.id)
           ids == IF txSnap = None THEN {} ELSE dirtyIds(rows, base)
       IN  Goto(proc, p, Merge(pr, [pc |-> "store", rows |-> rows, queried |-> TRUE,
                                    calls |-> pr.calls + 1,
                                    dirty |-> IF ids = {} THEN None
                                              ELSE Some([u |-> hist.unitNo, ids |-> ids])]))
    /\ UNCHANGED <<cache, db, txSnap, hist, ops>>
    /\ svcFrame

\* getOrFetch resumes after `await fetchFn()`: set(key, data), return data; a fetch
\* function that threw (no session row) stores nothing
getOrFetch_store(p) ==
    /\ proc[p].pc = "store"
    /\ LET pr == proc[p]
           k == IF pr.op \in KeyedReads THEN readKey(pr.op, pr.id) ELSE allExercises
           c1 == set_cache(cache, k, pr.rows, None, now)
           h == [hist EXCEPT !.prov = SetProv(@, k, pr.dirty)]
       IN  IF pr.op \in {"getSessionById", "deleteSession"} /\ pr.rows = Null
           THEN /\ cache' = cache
                /\ hist' = [hist EXCEPT !.notFound = @ \cup missedRead(pr)]
                /\ afterCheck(proc, p, pr, FALSE, Null)
           ELSE IF pr.op \in KeyedReads
           THEN /\ cache' = c1
                /\ hist' = h
                /\ afterCheck(proc, p, pr, TRUE, pr.rows)
           ELSE byIdContinue(proc, p, pr, c1, h, pr.rows, pr.dirty)
    /\ UNCHANGED <<db, txSnap, ops>>
    /\ svcFrame

transaction_begin_joining(p) ==
    /\ proc[p].pc = "begin"
    /\ LET pr == proc[p]
       IN  /\ txSnap' = IF txSnap = None THEN Some(db) ELSE txSnap
           /\ hist' = [hist EXCEPT !.unitNo = @ + 1]
           /\ Goto(proc, p, Merge(pr, [pc |-> IF pr.rest = <<>> THEN "commit" ELSE "stmt",
                                       unit |-> hist.unitNo + 1, calls |-> pr.calls + 1,
                                       pre |-> Some([db |-> db, cache |-> cache])]))
    /\ UNCHANGED <<cache, db, ops>>
    /\ svcFrame

\* withTransactionAsync: BEGIN on the shared connection; the engine refuses a BEGIN while
\* a unit is open, and the refused call goes to its ROLLBACK without running its callback
transaction_begin(p) ==
    /\ proc[p].pc = "begin"
    /\ LET pr == proc[p]
       IN  IF txSnap = None
           THEN /\ txSnap' = Some(db)
                /\ hist' = [hist EXCEPT !.unitNo = @ + 1]
                /\ Goto(proc, p, Merge(pr, [pc |-> IF pr.rest = <<>> THEN "commit" ELSE "stmt",
                                            unit |-> hist.unitNo + 1, calls |-> pr.calls + 1,
                                            pre |-> Some([db |-> db, cache |-> cache])]))
           ELSE /\ txSnap' = txSnap
                /\ hist' = hist
                /\ Goto(proc, p, Merge(pr, [pc |-> "rollback", calls |-> pr.calls + 1,
                                            err |-> Thrown("Error", <<E_NESTED>>)]))
    /\ UNCHANGED <<cache, db, ops>>
    /\ svcFrame

\* one statement of the unit's callback (executeRun), or the callback's own throw
executeRun_inUnit(p) ==
    /\ proc[p].pc = "stmt"
    /\ LET pr == proc[p]
           st == Head(pr.rest)
           r == execStmt(db, st, pr.newId)
           rest1 == Tail(pr.rest)
       IN  /\ db' = r.db
           /\ Goto(proc, p,
                   Merge(pr, [pc |-> unitNextPc(r.ok, rest1), rest |-> rest1,
                              calls |-> pr.calls + 1,
                              newId |-> IF r.ok /\ st.s = "insertExercise" THEN r.rowid
                                        ELSE pr.newId,
                              wrote |-> IF r.ok THEN pr.wrote + 1 ELSE pr.wrote,
                              err |-> IF r.ok THEN NoErr
                                      ELSE IF st.s = "throw" THEN Thrown("Error", <<r.err>>)
                                      ELSE runFailed(r.err)]))
    /\ UNCHANGED <<cache, txSnap, hist, ops>>
    /\ svcFrame

\* withTransactionAsync: COMMIT; the engine refuses it when no unit is open any more
transaction_commit(p) ==
    /\ proc[p].pc = "commit"
    /\ txSnap' = None
    /\ IF txSnap # None
       THEN Goto(proc, p, Merge(proc[p], [pc |-> "inval", committed |-> TRUE]))
       ELSE Goto(proc, p, Merge(proc[p], [pc |-> "rollback",
                                          err |-> Thrown("Error", <<E_NOCOMMIT>>)]))
    /\ UNCHANGED <<cache, db, hist, ops>>
    /\ svcFrame

\* withTransactionAsync: ROLLBACK, the error is rethrown and reaches the catch block; a
\* ROLLBACK with no unit open fails, and that failure is what is thrown
transaction_rollback(p) ==
    /\ proc[p].pc = "rollback"
    /\ LET pr == [proc[p] EXCEPT !.err = IF txSnap = None
                                         THEN Thrown("Error", <<E_NOROLLBACK>>) ELSE @]
           d1 == rollbackDb(txSnap, db)
       IN  /\ db' = d1
           /\ txSnap' = None
           /\ hist' = [hist EXCEPT
                         !.aborted = IF txSnap # None THEN @ \cup {hist.unitNo} ELSE @,
                         !.lastAbort = IF pr.pre # None THEN Some(pr.pre[1].cache) ELSE None]
           /\ Finish(proc, p, Merge(pr, [post |-> Some([db |-> d1, cache |-> cache])]),
                     caughtAs(pr.op, pr.err), Null)
    /\ UNCHANGED <<cache, ops>>
    /\ svcFrame

\* the record of what a statement outside a unit did to sessions and sets
runGhost(h, pr, rowid) ==
    IF pr.op = "addSet"
    THEN [h EXCEPT !.addLog = Append(@, [session |-> pr.id, order |-> pr.order,
                                         id |-> rowid])]
    ELSE IF pr.op = "deleteSet" THEN [h EXCEPT !.removed = @ \cup {pr.sid}]
    ELSE IF pr.op = "deleteSession"
    THEN [h EXCEPT !.resolved = {x \in @ : x.id # pr.id}, !.removed = @ \cup {pr.id}]
    ELSE h

\* a single statement outside a unit (deleteExercise, the WorkoutService writes)
executeRun_single(p) ==
    /\ proc[p].pc = "run"
    /\ LET pr == proc[p]
           r == execStmt(db, Head(pr.rest), 0)
       IN  /\ db' = r.db
           /\ IF r.ok
              THEN /\ hist' = runGhost(hist, pr, r.rowid)
                   /\ Goto(proc, p, Merge(pr, [pc |-> "inval", rest |-> <<>>, wrote |-> 1,
                                               newId |-> r.rowid, calls |-> pr.calls + 1,
                                               committed |-> txSnap = None]))
              ELSE /\ hist' = hist
                   /\ Finish(proc, p, Merge(pr, [err |-> runFailed(r.err),
                                                 calls |-> pr.calls + 1]),
                             caughtAs(pr.op, runFailed(r.err)), Null)
    /\ UNCHANGED <<cache, txSnap, ops>>
    /\ svcFrame

\* the CacheInvalidation call each write makes once its statements are done; dateArg is
\* the date string deleteSession computes from the session it read
invalidateFor(c, d, pr, dateArg) ==
    IF pr.op = "getOrCreateSession" THEN onSessionChange(c, d, Some(pr.newId), Some(pr.date))
    ELSE IF pr.op = "deleteSession" THEN onSessionChange(c, d, Some(pr.id), Some(dateArg))
    ELSE IF pr.op = "addSet" THEN onSetChange(c, d, pr.id, pr.eid)
    ELSE IF pr.op \in {"deleteSet", "updateSet"} THEN onSetChange(c, d, pr.sid, pr.eid)
    ELSE IF pr.op = "createTag" THEN onTagChange(c, d, Some(pr.newId))
    ELSE IF pr.op \in {"updateTag", "deleteTag"} THEN onTagChange(c, d, Some(pr.id))
    ELSE onExerciseChange(c, d, Some(IF pr.op = "createExercise" THEN pr.newId ELSE pr.id))

\* the CacheInvalidation call after the write, then the operation returns
invalidation(p) ==
    /\ proc[p].pc = "inval"
    /\ \E dateArg \in (IF proc[p].op = "deleteSession" THEN isoDates(proc[p].date)
                        ELSE {proc[p].date}) :
         LET pr == proc[p]
             c1 == invalidateFor(cache, dependencies, pr, dateArg)
         IN  /\ cache' = c1
             /\ hist' = [hist EXCEPT
                           !.prov = {r \in @ : r.key \in DOMAIN c1},
                           !.reread = {},
                           !.lastUpdate = IF pr.op = "updateExercise"
                                          THEN Some([id |-> pr.id, data |-> pr.data,
                                                     had |-> DOMAIN cache])
                                          ELSE None,
                           !.lastInval = Some([op |-> pr.op, had |-> DOMAIN cache]),
                           !.created = IF pr.op = "createExercise"
                                       THEN @ \cup {[id |-> pr.newId, data |-> pr.data]}
                                       ELSE @,
                           !.resolved = IF pr.op = "getOrCreateSession"
                                        THEN @ \cup {[date |-> pr.date, tod |-> pr.tod,
                                                      id |-> pr.newId]}
                                        ELSE @]
             /\ Finish(proc, p, Merge(pr, [inv |-> TRUE, invOpen |-> txSnap # None]), "ok",
                       IF pr.op \in {"createExercise", "getOrCreateSession", "addSet",
                                     "createTag"}
                       THEN Val(pr.newId) ELSE Null)
    /\ UNCHANGED <<db, txSnap, ops>>
    /\ svcFrame

\* createTag: !name || name.trim().length === 0
createTagInvalid(name) == Len(Trim(name)) = 0

\* a caller starts createTag(name)
createTag(p, name) ==
    /\ proc[p] = Idle
    /\ ops < MaxOps
    /\ ops' = ops + 1
    /\ LET pr == Merge(Idle, [op |-> "createTag", data |-> Data(Some(name), None, None)])
       IN  IF createTagInvalid(name)
           THEN Finish(proc, p, pr,
                       caughtAs(pr.op, Thrown("ValidationError", <<"Tag name is required">>)),
                       Null)
           ELSE Goto(proc, p, Merge(pr, [pc |-> "run",
                                         rest |-> <<Stmt("insertTagRow", 0, Some(Trim(name)),
                                                         None, 0)>>]))
    /\ hist' = [hist EXCEPT !.lastUpdate = None, !.reread = {}, !.lastAbort = None]
    /\ UNCHANGED <<cache, db, txSnap>>
    /\ svcFrame

\* a caller starts updateTag(id, name?) with no color: None is the name left undefined
updateTag(p, id, nameArg) ==
    /\ proc[p] = Idle
    /\ ops < MaxOps
    /\ ops' = ops + 1
    /\ LET pr == Merge(Idle, [op |-> "updateTag", id |-> id, data |-> Data(nameArg, None, None)])
       IN  IF nameArg # None /\ Len(Trim(nameArg[1])) = 0
           THEN Finish(proc, p, pr,
                       caughtAs(pr.op, Thrown("ValidationError", <<"Tag name cannot be empty">>)),
                       Null)
           ELSE IF nameArg = None
           THEN Finish(proc, p, pr, "ok", Null)
           ELSE Goto(proc, p, Merge(pr, [pc |-> "run",
                                         rest |-> <<Stmt("updateTagRow", id,
                                                         Some(Trim(nameArg[1])), None, 0)>>]))
    /\ hist' = [hist EXCEPT !.lastUpdate = None, !.reread = {}, !.lastAbort = None]
    /\ UNCHANGED <<cache, db, txSnap>>
    /\ svcFrame

\* a caller starts deleteTag(id)
deleteTag(p, id) ==
    /\ proc[p] = Idle
    /\ ops < MaxOps
    /\ ops' = ops + 1
    /\ Goto(proc, p, Merge(Idle, [op |-> "deleteTag", id |-> id, pc |-> "run",
                                 rest |-> <<Stmt("deleteTagRow", id, None, None, 0)>>]))
    /\ hist' = [hist EXCEPT !.lastUpdate = None, !.reread = {}, !.lastAbort = None]
    /\ UNCHANGED <<cache, db, txSnap>>
    /\ svcFrame

\* a caller starts getOrCreateSession(date, timeOfDay?)
getOrCreateSession(p, date, timeOfDay) ==
    /\ proc[p] = Idle
    /\ ops < MaxOps
    /\ ops' = ops + 1
    /\ LET pr == Merge(Idle, [op |-> "getOrCreateSession", date |-> date, tod |-> timeOfDay,
                              prior |-> {x.id : x \in {y \in hist.resolved :
                                                          y.date = date /\ y.tod = timeOfDay}}])
       IN  IF ~validDate(date)
           THEN Finish(proc, p, pr,
                       caughtAs(pr.op, Thrown("ValidationError", <<"Invalid date format">>)),
                       Null)
           ELSE Goto(proc, p, Merge(pr, [pc |-> "first"]))
    /\ UNCHANGED <<cache, db, txSnap, hist>>
    /\ svcFrame

addSetInvalid_weightonly(weight, reps) == weight < 0

\* addSet: data.weight < 0, data.reps < 0
addSetInvalid(weight, reps) == weight < 0 \/ reps < 0

\* updateSet: data.weight !== undefined && data.weight < 0, the same for reps
updateSetInvalid(weightArg, repsArg) ==
    \/ (weightArg # None /\ weightArg[1] < 0)
    \/ (repsArg # None /\ repsArg[1] < 0)

\* a caller starts addSet(sessionId, data)
addSet(p, sessionId, exerciseId, weight, reps) ==
    /\ proc[p] = Idle
    /\ ops < MaxOps
    /\ ops' = ops + 1
    /\ UNCHANGED <<cache, db, txSnap, hist>>
    /\ LET pr == Merge(Idle, [op |-> "addSet", id |-> sessionId, eid |-> exerciseId,
                              wr |-> <<weight, reps>>,
                              pre |-> Some([db |-> db, cache |-> cache])])
       IN  IF addSetInvalid(weight, reps)
           THEN Finish(proc, p, Merge(pr, [post |-> Some([db |-> db', cache |-> cache'])]),
                       caughtAs(pr.op, Thrown("ValidationError", <<"cannot be negative">>)),
                       Null)
           ELSE Goto(proc, p, Merge(pr, [pc |-> "first"]))
    /\ svcFrame

\* a caller starts updateSet(id, data); None is a field left undefined
updateSet(p, id, weightArg, repsArg) ==
    /\ proc[p] = Idle
    /\ ops < MaxOps
    /\ ops' = ops + 1
    /\ UNCHANGED <<cache, db, txSnap, hist>>
    /\ LET pr == Merge(Idle, [op |-> "updateSet", id |-> id, upd |-> <<weightArg, repsArg>>,
                              pre |-> Some([db |-> db, cache |-> cache])])
       IN  IF updateSetInvalid(weightArg, repsArg)
           THEN Finish(proc, p, Merge(pr, [post |-> Some([db |-> db', cache |-> cache'])]),
                       caughtAs(pr.op, Thrown("ValidationError", <<"cannot be negative">>)),
                       Null)
           ELSE Goto(proc, p, Merge(pr, [pc |-> "first"]))
    /\ svcFrame

\* a caller starts deleteSet(id)
deleteSet(p, id) ==
    /\ proc[p] = Idle
    /\ ops < MaxOps
    /\ ops' = ops + 1
    /\ Goto(proc, p, Merge(Idle, [op |-> "deleteSet", id |-> id, pc |-> "first"]))
    /\ UNCHANGED <<cache, db, txSnap, hist>>
    /\ svcFrame

nextSetOrder_fromZero(maxOrder) == IF maxOrder = None THEN 0 ELSE maxOrder[1] + 1

\* (lastSet?.max_order || 0) + 1
nextSetOrder(maxOrder) == (IF maxOrder = None \/ maxOrder[1] = 0 THEN 0 ELSE maxOrder[1]) + 1

\* getFirst of a WorkoutService write resolves: the rest of the method up to executeRun
getFirst(p) ==
    /\ proc[p].pc = "first"
    /\ LET pr == Merge(proc[p], [calls |-> proc[p].calls + 1])
       IN  IF pr.op = "getOrCreateSession"
           THEN LET existing == selectSessionId(db, pr.date, pr.tod)
                IN  IF existing # None
                    THEN /\ hist' = [hist EXCEPT !.resolved =
                                        @ \cup {[date |-> pr.date, tod |-> pr.tod,
                                                 id |-> existing[1]]}]
                         /\ Finish(proc, p, pr, "ok", Val(existing[1]))
                    ELSE /\ hist' = hist
                         /\ Goto(proc, p,
                                 Merge(pr, [pc |-> "run",
                                            rest |-> <<Stmt("insertSession", 0, Some(pr.date),
                                                            pr.tod, 0)>>]))
           ELSE IF pr.op = "addSet"
           THEN LET setOrder == nextSetOrder(selectMaxOrder(db, pr.id))
                IN  /\ hist' = hist
                    /\ Goto(proc, p,
                            Merge(pr, [pc |-> "run", order |-> setOrder,
                                       rest |-> <<SetStmt("insertSet", pr.id, pr.eid,
                                                          Some(setOrder), pr.wr[1],
                                                          pr.wr[2])>>]))
           ELSE LET existing == selectSet(db, pr.id)
                IN  /\ hist' = hist
                    /\ IF existing = None
                       THEN Finish(proc, p, pr,
                                   caughtAs(pr.op, Thrown("NotFoundError", <<"Set not found">>)),
                                   Null)
                       ELSE IF pr.op = "deleteSet"
                       THEN Goto(proc, p,
                                 Merge(pr, [pc |-> "run", sid |-> existing[1].session_id,
                                            eid |-> existing[1].exercise_id,
                                            rest |-> <<Stmt("deleteSet", pr.id, None, None,
                                                            0)>>]))
                       ELSE IF pr.upd = <<None, None>>
                       THEN Finish(proc, p, pr, "ok", Null)
                       ELSE Goto(proc, p,
                                 Merge(pr, [pc |-> "run", sid |-> existing[1].session_id,
                                            eid |-> existing[1].exercise_id,
                                            rest |-> <<SetStmt("updateSet", pr.id, 0, None,
                                                               pr.upd[1], pr.upd[2])>>]))
    /\ UNCHANGED <<cache, db, txSnap, ops>>
    /\ svcFrame

SvcInit ==
    /\ CacheInit({})
    /\ KeyIdle
    /\ db = DbInit
    /\ txSnap = None
    /\ proc = [p \in Procs |-> Idle]
    /\ res = [p \in Procs |-> NoResult]
    /\ hist = HistInit
    /\ ops = 0
    /\ AppIdle

----------------------------------------------------------------------------
(* SpecSeq: one caller, each operation runs to completion before the next starts *)

ExerciseIds == {1, 2, 3}
SessionIds == {1}

UpdateInputs ==
    { Data(Some(<<" ", "N">>), Some(0), None),
      Data(None, None, Some(<<>>)),
      Data(Some(<<"p">>), None, None),
      Data(Some(<<"N">>), None, Some(<<1, 9>>)),
      Data(Some(<<" ">>), None, None) }

CreateInputs ==
    { Data(Some(<<"N", " ">>), Some(0), Some(<<1>>)),
      Data(Some(<<"s">>), None, None),
      Data(Some(<<"N">>), None, Some(<<9>>)),
      Data(Some(<<" ">>), None, None) }

TagNames == {<<>>, <<" ">>, <<"l">>, <<"T">>}

SeqNext ==
    \/ readStart(1, "getAllExercises", 0)
    \/ \E id \in ExerciseIds : readStart(1, "getExerciseById", id)
    \/ \E s \in SessionIds : readStart(1, "getSessionSets", s)
    \/ \E id \in ExerciseIds, data \in UpdateInputs : writeStart(1, "updateExercise", id, data)
    \/ \E data \in CreateInputs : writeStart(1, "createExercise", 0, data)
    \/ \E id \in ExerciseIds : writeStart(1, "deleteExercise", id, NoData)
    \/ writeStart(1, "rollbackTest", 0, NoData)
    \/ \E name \in TagNames : createTag(1, name)
    \/ executeQuery(1)
    \/ getOrFetch_store(1)
    \/ transaction_begin(1)
    \/ executeRun_inUnit(1)
    \/ transaction_commit(1)
    \/ transaction_rollback(1)
    \/ executeRun_single(1)
    \/ invalidation(1)

SpecSeq == SvcInit /\ [][SeqNext]_vars

----------------------------------------------------------------------------
(* Claims about the write/invalidate protocol in sequential execution *)

Range(seq) == {seq[i] : i \in 1..Len(seq)}

\* the read is one the last committed update speaks about
AboutUpdated(r) ==
    /\ r.after # None
    /\ \/ r.op = "getAllExercises"
       \/ r.op = "getExerciseById" /\ r.id = r.after[1].id

\* the read returned the exercise with every field the update supplied
Reflects(r) ==
    /\ r.status = "ok"
    /\ LET u == r.after[1]
           found == IF r.op = "getAllExercises" THEN u.id \in DOMAIN r.val.rows ELSE TRUE
           row == IF r.op = "getAllExercises" THEN r.val.rows[u.id] ELSE r.val.row
       IN  /\ found
           /\ u.data.name # None => row.name = Trim(u.data.name[1])
           /\ u.data.defaultWeight # None => row.defaultWeight = u.data.defaultWeight
           /\ u.data.tagIds # None => row.tags = Range(u.data.tagIds[1])

\* C3: in sequential execution, once updateExercise(e, data) has committed, the next
\* getExerciseById(e) misses its key and runs its fetch, the next getAllExercises (called
\* directly or by that fetch) misses and queries storage, and every such read returns the
\* updated fields
C3_UpdateThenReadFresh ==
    \A p \in Procs :
        AboutUpdated(res[p]) =>
            /\ Reflects(res[p])
            /\ res[p].first => res[p].fetched
            /\ res[p].firstAll => res[p].queried

C3_Witness ==
    \E p \in Procs :
        /\ AboutUpdated(res[p])
        /\ res[p].op = "getAllExercises"
        /\ res[p].first
        /\ res[p].firstAll
        /\ res[p].queried
        /\ allExercises \in res[p].after[1].had
        /\ res[p].after[1].data.name # None
        /\ res[p].val.rows[res[p].after[1].id].name = <<"N">>

ErrorKinds ==
    {"NotFoundError", "ValidationError", "DuplicateError", "ConstraintError",
     "DatabaseError", "Error"}

\* C4: with one operation running at a time, a write invalidates the cache only after its
\* statements have committed (no unit is open on the connection at that moment); a write
\* that fails invokes no invalidation and hands an error to its caller
C4_InvalidateAfterCommit ==
    \A p \in Procs :
        /\ proc[p].pc = "inval" => proc[p].committed /\ txSnap = None
        /\ res[p].op \in WriteOps =>
              /\ res[p].inv => res[p].committed /\ ~res[p].invOpen /\ res[p].status = "ok"
              /\ res[p].status # "ok" => ~res[p].inv /\ res[p].status \in ErrorKinds
              /\ res[p].status = "ok" => res[p].inv

C4_Witness ==
    \E p \in Procs :
        /\ res[p].op = "createExercise"
        /\ res[p].status = "ok"
        /\ res[p].inv
        /\ res[p].wrote = 2
        /\ res[p].committed

\* the unit executed at least one write statement and then failed
FailedUnit(r) == r.pre # None /\ r.post # None /\ r.status # "ok" /\ r.wrote >= 1

\* C5: with one operation running at a time, when a unit fails after executing write
\* statements, storage is exactly as it was when the unit started and every cache entry
\* present then is still present with the same value; a later read of such an entry
\* returns it unchanged, without a query
C5_RollbackRestores ==
    \A p \in Procs :
        LET r == res[p]
        IN  /\ FailedUnit(r) =>
                  /\ r.post[1].db = r.pre[1].db
                  /\ \A k \in DOMAIN r.pre[1].cache :
                        /\ k \in DOMAIN r.post[1].cache
                        /\ r.post[1].cache[k] = r.pre[1].cache[k]
            /\ ( /\ r.op \in ReadOps
                 /\ r.abort # None
                 /\ readKey(r.op, r.id) \in DOMAIN r.abort[1] )
               => /\ r.status = "ok"
                  /\ r.val = r.abort[1][readKey(r.op, r.id)].data
                  /\ ~r.fetched

C5_Witness ==
    \E p \in Procs :
        /\ res[p].op = "getSessionSets"
        /\ res[p].abort # None
        /\ setsBySession(res[p].id) \in DOMAIN res[p].abort[1]
        /\ res[p].status = "ok"
        /\ db.seq.sets = 1

----------------------------------------------------------------------------
(* SpecConc: caller 1 reads and updates, caller 2 reads; their steps interleave at
   suspension points, all statements run on the one shared connection *)

ConcUpdates ==
    { Data(Some(<<" ", "N">>), None, None),
      Data(Some(<<"N">>), None, Some(<<1, 9>>)) }

ConcNext ==
    \/ \E p \in Procs : readStart(p, "getAllExercises", 0)
    \/ \E p \in Procs : readStart(p, "getExerciseById", 1)
    \/ \E p \in Procs : readStart(p, "getSessionSets", 1)
    \/ \E data \in ConcUpdates : writeStart(1, "updateExercise", 1, data)
    \/ \E p \in Procs : executeQuery(p)
    \/ \E p \in Procs : getOrFetch_store(p)
    \/ transaction_begin(1)
    \/ executeRun_inUnit(1)
    \/ transaction_commit(1)
    \/ transaction_rollback(1)
    \/ invalidation(1)

SpecConc == SvcInit /\ [][ConcNext]_vars

\* C6: under every interleaving, a read whose getOrFetch call starts after the
\* invalidation step of a committed updateExercise returns data that reflects the update
C6_ReadAfterInvalidationFresh ==
    \A p \in Procs : AboutUpdated(res[p]) => Reflects(res[p])

\* C7: under every interleaving, rows written by a unit that aborts are never returned by
\* a read and never stored in the cache
C7_NoAbortedData ==
    /\ \A p \in Procs :
          (res[p].op \in ReadOps /\ res[p].dirty # None)
              => res[p].dirty[1].u \notin hist.aborted
    /\ \A r \in hist.prov : r.key \in DOMAIN cache => r.u \notin hist.aborted

----------------------------------------------------------------------------
(* SpecPolicy: the CacheInvalidation functions applied to populated caches *)

\* keys the services build: lists, filtered lists with free search text, by-id entries
PolicyKeys ==
    { allExercises, exercisesKey(Some(<<FSearch(S_sessions \o Colon)>>)),
      exerciseById(1), exercisesByTag(1), recentExercises, favoriteExercises,
      allTags, tagById(1),
      sessionById(1), sessionsByDate(S_day1), sessionsByDateRange(S_day1, S_day2),
      calendarMarkers(2024, 3),
      setsBySession(1), setsBySession(7), setsByExercise(1), setsByExercise(7) }

MaxAbsent == 1
PolicyIds == {None, Some(1), Some(7)}
PolicyDates == {None, Some(S_day1)}

PolicyInit ==
    /\ \E S \in SUBSET PolicyKeys :
          /\ Cardinality(PolicyKeys \ S) <= MaxAbsent
          /\ cache = [k \in S |-> [data |-> Val(1), timestamp |-> 0, ttl |-> DEFAULT_TTL]]
    /\ dependencies = EmptyMap
    /\ now = 0
    /\ ticks = 0
    /\ inflight = [p \in Callers |-> None]
    /\ lastCall = NoCall
    /\ stored = [k \in {} |-> None]
    /\ edges = 0
    /\ KeyIdle
    /\ SvcIdle

policyFrame == UNCHANGED <<dependencies, now, ticks, inflight, stored, edges, keyVars, svcVars, appVars>>

PolicyCall(op, args, c1) ==
    /\ cache' = c1
    /\ lastCall' = [Done(op, args) EXCEPT !.had = Some(cache)]
    /\ policyFrame

PolicyNext ==
    \/ \E i \in PolicyIds :
         PolicyCall("onExerciseChange", <<i>>, onExerciseChange(cache, dependencies, i))
    \/ \E i \in PolicyIds :
         PolicyCall("onTagChange", <<i>>, onTagChange(cache, dependencies, i))
    \/ \E i \in PolicyIds, dt \in PolicyDates :
         PolicyCall("onSessionChange", <<i, dt>>,
                    onSessionChange(cache, dependencies, i, dt))
    \/ \E s \in {1, 7}, e \in {1, 7} :
         PolicyCall("onSetChange", <<s, e>>, onSetChange(cache, dependencies, s, e))

SpecPolicy == PolicyInit /\ [][PolicyNext]_vars

\* the namespace of a key is its first segment
InNamespace(k, ns) == FirstSegment(k) = ns

\* entry k of the cache before the call is still there, unchanged
Kept(before, k) == k \in DOMAIN cache /\ cache[k] = before[k]

\* C11: after onExerciseChange(id) no key of the exercises namespace remains and
\* sets:exercise:<id> is absent; every other entry (tags, sessions, calendar,
\* sets:session:*, other sets:exercise:*) is left in place; without id only the
\* exercises namespace is removed
C11_OnExerciseChange ==
    lastCall.op = "onExerciseChange" =>
        LET before == lastCall.had[1]
            idArg == lastCall.key[1]
            exact == IF idArg # None THEN {setsByExercise(idArg[1])} ELSE {}
        IN  /\ \A k \in DOMAIN cache : ~InNamespace(k, S_exercises) /\ k \notin exact
            /\ \A k \in DOMAIN before :
                  (~InNamespace(k, S_exercises) /\ k \notin exact) => Kept(before, k)

C11_Witness ==
    /\ lastCall.op = "onExerciseChange"
    /\ lastCall.key = <<Some(1)>>
    /\ DOMAIN lastCall.had[1] = PolicyKeys
    /\ setsByExercise(7) \in DOMAIN cache
    /\ setsByExercise(1) \notin DOMAIN cache

\* C12: after onTagChange(id) no key of the tags namespace and no key of the exercises
\* namespace remains; session, calendar and sets entries are left in place
C12_OnTagChange ==
    lastCall.op = "onTagChange" =>
        LET before == lastCall.had[1]
        IN  /\ \A k \in DOMAIN cache :
                  ~InNamespace(k, S_tags) /\ ~InNamespace(k, S_exercises)
            /\ \A k \in DOMAIN before :
                  ( \/ InNamespace(k, S_sessions)
                    \/ InNamespace(k, S_calendar)
                    \/ InNamespace(k, S_sets) ) => Kept(before, k)

C12_Witness ==
    /\ lastCall.op = "onTagChange"
    /\ lastCall.key = <<Some(1)>>
    /\ DOMAIN lastCall.had[1] = PolicyKeys
    /\ DOMAIN cache = {k \in PolicyKeys : \/ InNamespace(k, S_sessions)
                                           \/ InNamespace(k, S_calendar)
                                           \/ InNamespace(k, S_sets)}

\* C13: after onSessionChange(sessionId, date) no key of the sessions or calendar
\* namespace remains, sets:session:<sessionId> is absent when sessionId is given, and
\* exercise, tag and sets:exercise:* entries (and other sets:session:* entries) are
\* left in place
C13_OnSessionChange ==
    lastCall.op = "onSessionChange" =>
        LET before == lastCall.had[1]
            idArg == lastCall.key[1]
            exact == IF idArg # None THEN {setsBySession(idArg[1])} ELSE {}
        IN  /\ \A k \in DOMAIN cache :
                  ~InNamespace(k, S_sessions) /\ ~InNamespace(k, S_calendar) /\ k \notin exact
            /\ \A k \in DOMAIN before :
                  ( /\ \/ InNamespace(k, S_exercises)
                       \/ InNamespace(k, S_tags)
                       \/ InNamespace(k, S_sets)
                    /\ k \notin exact ) => Kept(before, k)

\* C14: onSetChange(s, e) removes exactly sets:session:<s>, sets:exercise:<e>,
\* exercises:recent and sessions:<s>, and leaves every other entry in place
C14_OnSetChange ==
    lastCall.op = "onSetChange" =>
        LET before == lastCall.had[1]
            s == lastCall.key[1]
            e == lastCall.key[2]
            four == {setsBySession(s), setsByExercise(e), recentExercises, sessionById(s)}
        IN  /\ DOMAIN cache = (DOMAIN before) \ four
            /\ \A k \in DOMAIN cache : cache[k] = before[k]

C14_Witness ==
    /\ lastCall.op = "onSetChange"
    /\ lastCall.key = <<1, 7>>
    /\ DOMAIN lastCall.had[1] = PolicyKeys
    /\ DOMAIN cache = PolicyKeys \ {setsBySession(1), setsByExercise(7), recentExercises,
                                    sessionById(1)}

----------------------------------------------------------------------------
(* SpecWorkout: one caller of WorkoutService, each operation runs to completion before
   the next starts *)

S_notADate == <<"2","0","2","4">>
DateInputs == {S_day1, S_day2, S_notADate}
TimeOfDayInputs == {None, Some("morning")}
WorkoutSessionIds == {1, 2, 3}
SetIds == {1, 2, 3}
SetExerciseIds == {1, 9}
WeightReps == {<<5, 5>>, <<0 - 1, 5>>, <<5, 0 - 1>>}
\* updateSet data: weight and reps given or left undefined
SetUpdates == {<<None, None>>, <<Some(7), None>>, <<Some(0 - 1), None>>, <<None, Some(0 - 1)>>}

WorkoutNext ==
    \/ \E date \in DateInputs, tod \in TimeOfDayInputs : getOrCreateSession(1, date, tod)
    \/ \E s \in WorkoutSessionIds, e \in SetExerciseIds, wr \in WeightReps :
          addSet(1, s, e, wr[1], wr[2])
    \/ \E id \in SetIds : deleteSet(1, id)
    \/ \E s \in WorkoutSessionIds : writeStart(1, "deleteSession", s, NoData)
    \/ \E s \in WorkoutSessionIds : readStart(1, "getSessionById", s)
    \/ \E s \in WorkoutSessionIds : readStart(1, "getSessionSets", s)
    \/ getFirst(1)
    \/ executeQuery(1)
    \/ getOrFetch_store(1)
    \/ executeRun_single(1)
    \/ invalidation(1)

SpecWorkout == SvcInit /\ [][WorkoutNext]_vars

\* C15: getOrCreateSession called again, in sequence, with a date and time-of-day (or none)
\* that an earlier call resolved to a session still present, returns that session's id,
\* inserts no row and performs no cache invalidation
C15_GetOrCreateIdempotent ==
    \A p \in Procs :
        (res[p].op = "getOrCreateSession" /\ res[p].prior # {})
            => /\ res[p].status = "ok"
               /\ res[p].val \in {Val(i) : i \in res[p].prior}
               /\ Cardinality(res[p].prior) = 1
               /\ res[p].wrote = 0
               /\ ~res[p].inv

C15_Witness ==
    /\ res[1].op = "getOrCreateSession" /\ res[1].prior = {3} /\ res[1].tod = None
    /\ res[1].val = Val(3)
    /\ hist.resolved # {}

----------------------------------------------------------------------------
(* SpecWorkoutConc: two callers of getOrCreateSession and addSet, interleaving at every
   await *)

ConcDates == {S_day1, S_notADate}
ConcSessionIds == {1, 2}

WorkoutConcNext ==
    \E p \in Procs :
        \/ \E date \in ConcDates, tod \in TimeOfDayInputs : getOrCreateSession(p, date, tod)
        \/ \E s \in ConcSessionIds, e \in SetExerciseIds, wr \in WeightReps :
              addSet(p, s, e, wr[1], wr[2])
        \/ getFirst(p)
        \/ executeRun_single(p)
        \/ invalidation(p)

SpecWorkoutConc == SvcInit /\ [][WorkoutConcNext]_vars

SamePair(a, b) == a.date = b.date /\ a.tod = b.tod

\* C16: under every interleaving of getOrCreateSession calls, at most one workout_sessions
\* row exists per (date, time-of-day) pair, the pair without time-of-day included, and
\* every call for one pair resolves, to one and the same session id
C16_OneSessionPerPair ==
    /\ \A i, j \in DOMAIN db.sessions : db.sessions[i] = db.sessions[j] => i = j
    /\ \A a, b \in hist.resolved : SamePair(a, b) => a.id = b.id
    /\ \A p \in Procs :
          (res[p].op = "getOrCreateSession" /\ validDate(res[p].date))
              => res[p].status = "ok"

\* C19: under every interleaving of addSet calls, no two sets of one session have the
\* same set_order
C19_UniqueSetOrder ==
    \A a, b \in db.sets :
        (a.session_id = b.session_id /\ a.set_order = b.set_order) => a.id = b.id

----------------------------------------------------------------------------
(* set orders under SpecWorkout *)

EmptyAtStart(s) == \A r \in DbInit.sets : r.session_id # s

\* the sets addSet inserted into session s, in insertion order
SessionLog(s) == SelectSeq(hist.addLog, LAMBDA x : x.session = s)

\* C17: sets inserted one after another with addSet into a session that had no sets (and
\* from which none was deleted) carry set_order 1, 2, ..., n in insertion order
C17_SequentialOrders ==
    \A s \in WorkoutSessionIds :
        (EmptyAtStart(s) /\ s \notin hist.removed)
            => \A i \in 1..Len(SessionLog(s)) :
                  /\ SessionLog(s)[i].order = i
                  /\ \E r \in db.sets : /\ r.id = SessionLog(s)[i].id
                                        /\ r.session_id = s
                                        /\ r.set_order = i

C17_Witness ==
    /\ Len(SessionLog(2)) = 3
    /\ 2 \notin hist.removed
    /\ Cardinality({r \in db.sets : r.session_id = 2}) = 3

\* C18: over every sequence of addSet and deleteSet calls, the set_order of a newly added
\* set is strictly greater than every set_order assigned in its session before, whichever
\* set was deleted, and the sets that exist keep the order they were given
C18_OrdersNeverReused ==
    /\ \A i \in 1..Len(hist.addLog) :
          LET e == hist.addLog[i]
          IN  /\ \A j \in 1..(i - 1) :
                    hist.addLog[j].session = e.session => hist.addLog[j].order < e.order
              /\ \A r \in DbInit.sets : r.session_id = e.session => r.set_order < e.order
    /\ \A r \in db.sets :
          /\ \A i \in 1..Len(hist.addLog) :
                hist.addLog[i].id = r.id => r.set_order = hist.addLog[i].order
          /\ \A r0 \in DbInit.sets : r0.id = r.id => r = r0

\* deleteSession(s) has returned successfully at some point
SessionDeleted(s) ==
    /\ s \in DOMAIN DbInit.sessions
    /\ s \notin DOMAIN db.sessions
    /\ ~(proc[1].op = "deleteSession" /\ proc[1].id = s)

\* C20: once deleteSession(s) has succeeded for a session with sets whose session-by-id
\* and sets-by-session reads were cached, no set of s is left in storage, the cache holds
\* neither sessions:<s> nor sets:session:<s>, and a following getSessionSets(s) returns an
\* empty list and getSessionById(s) signals NotFound
C20_DeleteSessionCascade ==
    \A s \in WorkoutSessionIds :
        SessionDeleted(s)
            => /\ \A r \in db.sets : r.session_id # s
               /\ (res[1].op = "deleteSession" /\ res[1].id = s /\ res[1].status = "ok"
                   /\ proc[1] = Idle)
                     => /\ sessionById(s) \notin DOMAIN cache
                        /\ setsBySession(s) \notin DOMAIN cache
               /\ (res[1].op = "getSessionSets" /\ res[1].id = s)
                     => res[1].status = "ok" /\ res[1].val = [kind |-> "sets", rows |-> {}]
               /\ (res[1].op = "getSessionById" /\ res[1].id = s)
                     => res[1].status = "NotFoundError"

C20_Witness ==
    /\ SessionDeleted(1)
    /\ hist.lastInval # None
    /\ hist.lastInval[1].op = "deleteSession"
    /\ {sessionById(1), setsBySession(1)} \subseteq hist.lastInval[1].had
    /\ res[1].op = "getSessionSets" /\ res[1].id = 1 /\ res[1].val.rows = {}

----------------------------------------------------------------------------
(* SpecSetEdit: one caller adding, updating and reading sets, one call at a time *)

SetEditNext ==
    \/ \E s \in ConcSessionIds, e \in SetExerciseIds, wr \in WeightReps :
          addSet(1, s, e, wr[1], wr[2])
    \/ \E id \in SetIds, u \in SetUpdates : updateSet(1, id, u[1], u[2])
    \/ \E id \in SetIds : deleteSet(1, id)
    \/ \E s \in ConcSessionIds : readStart(1, "getSessionSets", s)
    \/ getFirst(1)
    \/ executeQuery(1)
    \/ getOrFetch_store(1)
    \/ executeRun_single(1)
    \/ invalidation(1)

SpecSetEdit == SvcInit /\ [][SetEditNext]_vars

NegativeInput(r) ==
    \/ r.op = "addSet" /\ (r.wr[1] < 0 \/ r.wr[2] < 0)
    \/ r.op = "updateSet" /\ \E i \in 1..2 : r.upd[i] # None /\ r.upd[i][1] < 0

\* C21: addSet and updateSet with a negative weight or negative reps signal a Validation
\* error before any statement reaches the persistence engine; the sets rows with their
\* values and the cache are the same after the rejected call as before it
C21_NegativeRejected ==
    \A p \in Procs :
        NegativeInput(res[p])
            => /\ res[p].status = "ValidationError"
               /\ res[p].calls = 0
               /\ res[p].wrote = 0
               /\ ~res[p].inv
               /\ res[p].post = res[p].pre
               /\ proc[p] = Idle => (db.sets = res[p].pre[1].db.sets
                                       /\ cache = res[p].pre[1].cache)

C21_Witness ==
    /\ res[1].op = "updateSet" /\ res[1].upd = <<None, Some(0 - 1)>> /\ res[1].id = 2
    /\ res[1].status = "ValidationError"
    /\ Cardinality(db.sets) = 2
    /\ setsBySession(1) \in DOMAIN cache
    /\ proc[1] = Idle

----------------------------------------------------------------------------
(* error kinds delivered by the services *)

BlankName(nameArg) == nameArg = None \/ Len(Trim(nameArg[1])) = 0

\* C22: createExercise and createTag with an empty or whitespace-only name deliver the
\* Validation error kind to the caller and issue no statement to the persistence engine
C22_BlankNameIsValidationError ==
    \A p \in Procs :
        (res[p].op \in {"createExercise", "createTag"} /\ BlankName(res[p].data.name))
            => /\ res[p].status = "ValidationError"
               /\ res[p].calls = 0

----------------------------------------------------------------------------
(* getOrFetch whose fetch function fails, under SpecCache *)

FetchFailed == lastCall.op = "getOrFetch" /\ lastCall.ret = Failure

\* the step in which a suspended getOrFetch receives the rejection of its fetch function
RejectStep == inflight[1] # None /\ inflight'[1] = None /\ lastCall'.ret = Failure

\* the first step of a getOrFetch(key, ...) call
BeginStep(key) ==
    /\ inflight[1] = None
    /\ \/ inflight'[1] # None /\ inflight'[1][1].key = key
       \/ lastCall' # lastCall /\ lastCall'.op = "getOrFetch" /\ lastCall'.key = key

\* C23: when the fetch function of getOrFetch(k, fn) fails the error reaches the caller,
\* nothing is stored under k, every other entry is unchanged, and the next getOrFetch(k, fn2)
\* invokes fn2 instead of replaying the failure
C23_FailedFetchNotCached ==
    [][ /\ RejectStep
            => /\ cache' = cache
               /\ lastCall'.op = "getOrFetch"
               /\ get_result(cache', inflight[1][1].key, now') = Null
        /\ \A k \in TimedKeySet :
              BeginStep(k)
                  => /\ \A j \in (DOMAIN cache) \ {k} : j \in DOMAIN cache' /\ cache'[j] = cache[j]
                     /\ DOMAIN cache' \subseteq DOMAIN cache
                     /\ (FetchFailed /\ lastCall.key = k) => inflight'[1] # None
      ]_vars

\* a retry of the failed key is suspended in its fetch function while another entry is cached
C23_Witness ==
    /\ FetchFailed
    /\ inflight[1] # None
    /\ inflight[1][1].key = lastCall.key
    /\ DOMAIN cache # {}

----------------------------------------------------------------------------
(* SpecById: one caller reading exercises and sessions by id before and after they are
   created, one call at a time *)

ByIdExercises == {1, 3}
ByIdSessions == {1, 3}
ByIdCreates == {Data(Some(<<"N">>), None, None), Data(Some(<<"s">>), None, None)}

ByIdNext ==
    \/ \E id \in ByIdExercises : readStart(1, "getExerciseById", id)
    \/ \E s \in ByIdSessions : readStart(1, "getSessionById", s)
    \/ \E data \in ByIdCreates : writeStart(1, "createExercise", 0, data)
    \/ \E tod \in TimeOfDayInputs : getOrCreateSession(1, S_day1, tod)
    \/ getFirst(1)
    \/ executeQuery(1)
    \/ getOrFetch_store(1)
    \/ transaction_begin(1)
    \/ executeRun_inUnit(1)
    \/ transaction_commit(1)
    \/ transaction_rollback(1)
    \/ executeRun_single(1)
    \/ invalidation(1)

SpecById == SvcInit /\ [][ByIdNext]_vars

\* the entity a by-id read is about, as stored now (Null: there is none)
StoredEntity(op, id) ==
    IF op = "getSessionById" THEN selectSession(db, id)
    ELSE IF id \in DOMAIN db.exercises
    THEN [kind |-> "exercise", row |-> queryAllExercises(db).rows[id]]
    ELSE Null

\* C24: getSessionById and getExerciseById of an id that does not exist signal NotFound
\* and store nothing under the id's cache key; once the entity with that id has been
\* created, the by-id read returns the entity
C24_AbsenceNotCached ==
    (res[1].op \in {"getSessionById", "getExerciseById"} /\ proc[1] = Idle)
        => IF StoredEntity(res[1].op, res[1].id) = Null
           THEN /\ res[1].status = "NotFoundError"
                /\ readKey(res[1].op, res[1].id) \notin DOMAIN cache
           ELSE /\ res[1].status = "ok"
                /\ res[1].val = StoredEntity(res[1].op, res[1].id)

C24_Witness ==
    /\ res[1].op = "getExerciseById" /\ res[1].id = 3 /\ proc[1] = Idle
    /\ <<"getExerciseById", 3>> \in hist.notFound
    /\ res[1].status = "ok"
    /\ res[1].val.row.name = <<"N">>

----------------------------------------------------------------------------
(* SpecFilterKeys: the getAllExercises cache key of two filter objects *)

FilterFields == {FSearch(<<"a">>), FFav(TRUE), FTags(<<1>>)}

\* filter objects: their fields in the order in which the caller set them
OrderedFilters ==
    {f \in UNION {[1..n -> FilterFields] : n \in 0..3} :
        \A i, j \in 1..Len(f) : i # j => f[i].name # f[j].name}

\* the caller builds the keys of getAllExercises(f) and getAllExercises(g)
BuildKeys ==
    /\ matchOut = None
    /\ matchOut' = Some(<<exercisesKey(Some(keyIn[1])), exercisesKey(Some(keyIn[2]))>>)
    /\ UNCHANGED <<keyIn, patIn>>

FilterKeysInit ==
    /\ keyIn \in OrderedFilters \X OrderedFilters
    /\ patIn = None
    /\ matchOut = None
    /\ CacheInit({}) /\ SvcIdle

FilterKeysNext == BuildKeys /\ UNCHANGED <<cacheVars, svcVars, appVars>>

SpecFilterKeys == FilterKeysInit /\ [][FilterKeysNext]_vars

\* two filter objects with the same fields holding the same values
SameMeaning(f, g) == Range(f) = Range(g)

\* C25: two filters with the same searchQuery, favoritesOnly and tagIds produce the same
\* getAllExercises cache key, whatever the order in which their fields were set
C25_KeyIgnoresFieldOrder ==
    (matchOut # None /\ SameMeaning(keyIn[1], keyIn[2])) => matchOut[1][1] = matchOut[1][2]

----------------------------------------------------------------------------
(* SpecErrors: one caller whose writes fail in the persistence engine *)

ErrorCreates ==
    { Data(Some(<<"s">>), None, None), Data(Some(<<"N">>), None, Some(<<9>>)),
      Data(Some(<<"N">>), None, None) }
ErrorTagNames == {<<"l">>, <<"T">>}
ErrorTimesOfDay == {None, Some("morning"), Some("night")}

ErrorsNext ==
    \/ \E data \in ErrorCreates : writeStart(1, "createExercise", 0, data)
    \/ \E name \in ErrorTagNames : createTag(1, name)
    \/ \E e \in SetExerciseIds : addSet(1, 1, e, 5, 5)
    \/ \E tod \in ErrorTimesOfDay : getOrCreateSession(1, S_day2, tod)
    \/ getFirst(1)
    \/ transaction_begin(1)
    \/ executeRun_inUnit(1)
    \/ transaction_commit(1)
    \/ transaction_rollback(1)
    \/ executeRun_single(1)
    \/ invalidation(1)

SpecErrors == SvcInit /\ [][ErrorsNext]_vars

\* the operation ended because a statement failed in the engine with this text
EngineFailure(r, text) == r.err # NoErr /\ includes(r.err.msg, text)

\* C26: a persistence-engine failure inside a service operation reaches the caller as the
\* domain kind chosen by the failure: uniqueness -> Duplicate, foreign key -> Constraint,
\* check constraint -> Constraint, anything else -> Database (storage failure)
C26_EngineErrorKinds ==
    \A p \in Procs :
        LET r == res[p]
        IN  r.err # NoErr
                => r.status = IF EngineFailure(r, E_UNIQUE) THEN "DuplicateError"
                              ELSE IF EngineFailure(r, E_FOREIGN) THEN "ConstraintError"
                              ELSE IF EngineFailure(r, E_CHECK) THEN "ConstraintError"
                              ELSE "DatabaseError"

----------------------------------------------------------------------------
(* SpecCleanup: entries with dependencies age and are collected *)

CacheCleanupInit == CacheInit(TimedKeySet) /\ KeyIdle /\ SvcIdle

CacheCleanupNext ==
    \/ Tick /\ UNCHANGED <<keyVars, svcVars, appVars>>
    \/ \E k \in TimedKeySet, a \in TtlArgs :
         set(k, Val(1), a) /\ UNCHANGED <<keyVars, svcVars, appVars>>
    \/ \E k \in TimedKeySet : get(k) /\ UNCHANGED <<keyVars, svcVars, appVars>>
    \/ \E parent \in TimedKeySet, child \in TimedKeySet :
         addDependency(parent, child) /\ UNCHANGED <<keyVars, svcVars, appVars>>
    \/ cleanup /\ UNCHANGED <<keyVars, svcVars, appVars>>

SpecCleanup == CacheCleanupInit /\ [][CacheCleanupNext]_vars

\* how much later a get may be made: at once, or after clock steps
LaterSteps == {0} \cup TickSteps \cup {a + b : a \in TickSteps, b \in TickSteps}

\* C27: cleanup() removes all and only the entries whose ttl has elapsed at the call:
\* every entry with elapsed time <= ttl is kept with its value and timestamp, the
\* dependency graph is unchanged, and any later get returns what it would have returned
\* had cleanup() not run.
C27_CleanupOnlyExpired ==
    [][ lastCall'.op = "cleanup"
            => /\ DOMAIN cache' = {k \in DOMAIN cache : now - cache[k].timestamp <= cache[k].ttl}
               /\ \A k \in DOMAIN cache' : cache'[k] = cache[k]
               /\ dependencies' = dependencies
               /\ \A k \in TimedKeySet, d \in LaterSteps :
                     get_result(cache', k, now + d) = get_result(cache, k, now + d)
      ]_vars

\* C27 witness: a cleanup() has removed an entry and kept one whose elapsed time equals
\* its ttl, while the dependency graph has an edge.
C27_Witness ==
    /\ lastCall.op = "cleanup"
    /\ lastCall.had # None
    /\ (DOMAIN lastCall.had[1]) \ (DOMAIN cache) # {}
    /\ \E k \in DOMAIN cache : now - cache[k].timestamp = cache[k].ttl
    /\ dependencies # EmptyMap

----------------------------------------------------------------------------
(* SpecGraph: every CacheManager call, one caller, while time passes *)

GraphPatterns == {S_exercises \o Colon}

CacheGraphInit == CacheInit(TimedKeySet) /\ KeyIdle /\ SvcIdle

CacheGraphNext ==
    \/ Tick /\ UNCHANGED <<keyVars, svcVars, appVars>>
    \/ \E k \in TimedKeySet : NoInflight /\ get(k) /\ UNCHANGED <<keyVars, svcVars, appVars>>
    \/ \E k \in TimedKeySet :
         NoInflight /\ set(k, Val(1), Some(1)) /\ UNCHANGED <<keyVars, svcVars, appVars>>
    \/ \E k \in TimedKeySet :
         NoInflight /\ getOrFetch_begin(1, k, Some(1)) /\ UNCHANGED <<keyVars, svcVars, appVars>>
    \/ getOrFetch_resolve(1, Val(1)) /\ UNCHANGED <<keyVars, svcVars, appVars>>
    \/ getOrFetch_reject(1) /\ UNCHANGED <<keyVars, svcVars, appVars>>
    \/ \E k \in TimedKeySet : NoInflight /\ invalidate(k) /\ UNCHANGED <<keyVars, svcVars, appVars>>
    \/ \E pat \in GraphPatterns :
         NoInflight /\ invalidatePattern(pat) /\ UNCHANGED <<keyVars, svcVars, appVars>>
    \/ \E parent \in TimedKeySet, child \in TimedKeySet :
         NoInflight /\ addDependency(parent, child) /\ UNCHANGED <<keyVars, svcVars, appVars>>
    \/ NoInflight /\ clear /\ UNCHANGED <<keyVars, svcVars, appVars>>
    \/ NoInflight /\ cleanup /\ UNCHANGED <<keyVars, svcVars, appVars>>

SpecGraph == CacheGraphInit /\ [][CacheGraphNext]_vars

GraphPreserving == {"get", "set", "getOrFetch", "invalidate", "invalidatePattern", "cleanup"}

\* every edge of d is an edge of e
SubGraph(d, e) == \A k \in DOMAIN d : k \in DOMAIN e /\ d[k] \subseteq e[k]

\* C28: dependency edges are added only by addDependency and removed only by clear():
\* get, set, getOrFetch, invalidate, invalidatePattern and cleanup leave the dependency
\* graph unchanged, and clear() leaves the entry map and the dependency graph empty.
C28_GraphChangedOnlyByAddAndClear ==
    [][ /\ lastCall'.op \in GraphPreserving => dependencies' = dependencies
        /\ ~SubGraph(dependencies', dependencies) => lastCall'.op = "addDependency"
        /\ ~SubGraph(dependencies, dependencies') => lastCall'.op = "clear"
        /\ lastCall'.op = "clear" => cache' = EmptyMap /\ dependencies' = EmptyMap
      ]_vars

\* C28 witness: invalidate(k) has removed k and its dependent from the entry map, and k
\* still has its edge.
C28_Witness ==
    /\ lastCall.op = "invalidate"
    /\ depsOf(dependencies, lastCall.key) # {}
    /\ cache = EmptyMap
    /\ \E k \in TimedKeySet : stored[k] = None /\ k # lastCall.key /\ k \in depsOf(dependencies, lastCall.key)

----------------------------------------------------------------------------
(* SpecRace: two callers of getOrFetch whose fetches overlap *)

RaceValues == {Val(1), Val(2)}

CacheRaceInit == CacheInit(TimedKeySet) /\ KeyIdle /\ SvcIdle

CacheRaceNext ==
    \/ Tick /\ UNCHANGED <<keyVars, svcVars, appVars>>
    \/ \E p \in Callers, k \in TimedKeySet :
         getOrFetch_begin(p, k, None) /\ UNCHANGED <<keyVars, svcVars, appVars>>
    \/ \E p \in Callers, v \in RaceValues :
         getOrFetch_resolve(p, v) /\ UNCHANGED <<keyVars, svcVars, appVars>>
    \/ \E p \in Callers : getOrFetch_reject(p) /\ UNCHANGED <<keyVars, svcVars, appVars>>
    \/ \E k \in TimedKeySet : invalidate(k) /\ UNCHANGED <<keyVars, svcVars, appVars>>

SpecRace == CacheRaceInit /\ [][CacheRaceNext]_vars

\* caller p suspends in its own fetch
FetchStartedBy(p) == inflight[p] = None /\ inflight'[p] # None

\* caller p's fetch resolves and the call returns
FetchResolvedBy(p) == inflight[p] # None /\ inflight'[p] = None /\ lastCall'.ret # Failure

\* a call returns a cached value without fetching
HitStep == lastCall' # lastCall /\ lastCall'.op = "getOrFetch" /\ ~lastCall'.fetched

\* C29: two getOrFetch calls for the same absent key that both start before either fetch
\* completes each observe a miss and each invoke their own fetch; each caller receives
\* the value its fetch produced, and the cache then holds the value of whichever fetch
\* completed last.
C29_OverlappingFetches ==
    [][ /\ HitStep => get_result(cache, lastCall'.key, now) = lastCall'.ret /\ lastCall'.ret # Null
        /\ \A p \in Callers :
              /\ FetchStartedBy(p)
                    => /\ get_result(cache, inflight'[p][1].key, now) = Null
                       /\ \A q \in Callers \ {p} : inflight'[q] = inflight[q]
              /\ FetchResolvedBy(p)
                    => /\ lastCall'.fetched
                       /\ lastCall'.key = inflight[p][1].key
                       /\ cache'[lastCall'.key].data = lastCall'.ret
                       /\ \A q \in Callers \ {p} : inflight'[q] = inflight[q]
      ]_vars

\* C29 witness: both callers started on a key that had never been stored; one fetch has
\* completed and its value is cached while the other caller is still in its own fetch.
C29_Witness ==
    \E p \in Callers :
        /\ inflight[p] # None
        /\ inflight[p][1].had = None
        /\ lastCall.op = "getOrFetch"
        /\ lastCall.fetched
        /\ lastCall.had = None
        /\ lastCall.key = inflight[p][1].key
        /\ cache[lastCall.key].data = lastCall.ret

----------------------------------------------------------------------------
(* SpecUnits: two callers whose writes open units on the shared connection *)

UnitCreates == {Data(Some(<<"N">>), None, Some(<<1>>)), Data(Some(<<"s">>), None, None)}
UnitUpdates == {Data(Some(<<"M">>), None, None)}

UnitsNext ==
    \/ \E data \in UnitCreates : writeStart(1, "createExercise", 0, data)
    \/ \E data \in UnitUpdates : writeStart(2, "updateExercise", 1, data)
    \/ executeQuery(2)
    \/ getOrFetch_store(2)
    \/ \E p \in Procs : transaction_begin(p)
    \/ \E p \in Procs : executeRun_inUnit(p)
    \/ \E p \in Procs : transaction_commit(p)
    \/ \E p \in Procs : transaction_rollback(p)
    \/ \E p \in Procs : invalidation(p)

SpecUnits == SvcInit /\ [][UnitsNext]_vars

\* caller p's transaction() call issues its BEGIN
BeginBy(p) == proc[p].pc = "begin" /\ proc'[p].pc # "begin"

\* the transaction() call was refused because a unit was already open
Refused(r) == r.err = Thrown("Error", <<E_NESTED>>)

\* C30: at most one transactional unit is open on the shared connection: a call to
\* transaction() made while another unit is open is signalled as an error, its callback's
\* statements are not executed, and a unit is opened only when none is open.
C30_OneUnitAtATime ==
    [][ \A p \in Procs :
          /\ (BeginBy(p) /\ txSnap # None)
                => /\ Refused(proc'[p])
                   /\ proc'[p].pc = "rollback"
                   /\ proc'[p].rest = proc[p].rest
                   /\ db' = db
                   /\ txSnap' = txSnap
          /\ (BeginBy(p) /\ proc'[p].pc \in {"stmt", "commit"}) => txSnap = None
          /\ (proc[p].pc = "rollback" /\ Refused(proc[p]) /\ proc'[p] = Idle)
                => /\ res'[p].status \notin {"", "ok"}
                   /\ res'[p].wrote = 0
                   /\ ~res'[p].committed
      ]_vars

\* C30 witness: the second call was refused and has thrown a DatabaseError without
\* writing, while the first caller is still inside its own callback.
C30_Witness ==
    \E p \in Procs, q \in Procs :
        /\ p # q
        /\ Refused(res[p])
        /\ res[p].status = "DatabaseError"
        /\ res[p].wrote = 0
        /\ proc[q].pc \in {"stmt", "commit"}

----------------------------------------------------------------------------
(* Claims about reads of derived data after writes, in sequential execution *)

\* the last write invalidated while `key` was cached
WroteOver(op, key) ==
    /\ hist.lastInval # None
    /\ hist.lastInval[1].op = op
    /\ key \in hist.lastInval[1].had

\* C31: in sequential execution a getSessionSets(s) that has returned, with no call
\* started since, returned the sets of s as they are stored, whatever addSet, updateSet
\* or deleteSet calls came before it and whether or not the list was cached before them
C31_SessionSetsFresh ==
    (proc[1] = Idle /\ res[1].op = "getSessionSets" /\ res[1].status = "ok")
        => res[1].val = querySessionSets(db, res[1].id)

\* C31 witness: the list of session 1 was cached, updateSet changed the weight of its set
\* to 7, and the next getSessionSets(1) has returned the row with weight 7
C31_Witness ==
    /\ proc[1] = Idle
    /\ res[1].op = "getSessionSets" /\ res[1].id = 1 /\ res[1].status = "ok"
    /\ WroteOver("updateSet", setsBySession(1))
    /\ \E r \in res[1].val.rows : r.id = 1 /\ r.weight = 7

----------------------------------------------------------------------------
(* SpecTags: one caller creating, renaming, deleting and reading tags *)

TagIds == {1, 2}
NewTagNames == {<<"T">>}
TagRenames == {None, Some(<<"M">>), Some(<<"a", ",", "b">>), Some(<<" ">>)}

TagsNext ==
    \/ \E name \in NewTagNames : createTag(1, name)
    \/ \E id \in TagIds, nameArg \in TagRenames : updateTag(1, id, nameArg)
    \/ \E id \in TagIds : deleteTag(1, id)
    \/ readStart(1, "getAllTags", 0)
    \/ readStart(1, "getAllExercises", 0)
    \/ readStart(1, "getExerciseById", 1)
    \/ executeQuery(1)
    \/ getOrFetch_store(1)
    \/ executeRun_single(1)
    \/ invalidation(1)

SpecTags == SvcInit /\ [][TagsNext]_vars

\* the tags of exercise i as stored: each linked tag with its stored name
StoredTagsOf(d, i) ==
    {<<t, d.tags[t].name>> : t \in {u \in DOMAIN d.tags : <<i, u>> \in d.exercise_tags}}

\* the exercise row carries exactly the stored tags of its exercise
EmbedsStoredTags(row) ==
    /\ row.tags = {tn[1] : tn \in StoredTagsOf(db, row.id)}
    /\ row.tagNames = StoredTagsOf(db, row.id)

\* the read has returned and no call has started since
ReadReturned(op) == proc[1] = Idle /\ res[1].op = op /\ res[1].status = "ok"

\* C32 (as claimed): in sequential execution, after createTag, updateTag or deleteTag the
\* next getAllTags returns the tags as stored, and the next getAllExercises or
\* getExerciseById returns exercises whose embedded tag lists show the stored tags (a
\* renamed tag under its new name, a deleted tag not at all)
C32_TagChangesVisible ==
    /\ ReadReturned("getAllTags") => res[1].val = queryAllTags(db)
    /\ ReadReturned("getAllExercises")
          => /\ DOMAIN res[1].val.rows = DOMAIN db.exercises
             /\ \A i \in DOMAIN res[1].val.rows : EmbedsStoredTags(res[1].val.rows[i])
    /\ ReadReturned("getExerciseById") => EmbedsStoredTags(res[1].val.row)

----------------------------------------------------------------------------
(* SpecRoundTrip: one caller creates exercises and reads them back by id *)

RoundTripCreates ==
    { Data(Some(<<"N", " ">>), Some(0), Some(<<1>>)),
      Data(Some(<<"N">>), Some(5), None),
      Data(Some(<<"M">>), None, Some(<<1>>)) }
RoundTripIds == {1, 3, 4}

RoundTripNext ==
    \/ \E data \in RoundTripCreates : writeStart(1, "createExercise", 0, data)
    \/ \E id \in RoundTripIds : readStart(1, "getExerciseById", id)
    \/ executeQuery(1)
    \/ getOrFetch_store(1)
    \/ transaction_begin(1)
    \/ executeRun_inUnit(1)
    \/ transaction_commit(1)
    \/ transaction_rollback(1)
    \/ invalidation(1)

SpecRoundTrip == SvcInit /\ [][RoundTripNext]_vars

\* C33 (as claimed): getExerciseById of the id a successful createExercise returned yields
\* the trimmed name, the defaultWeight that was supplied (0 included, none when none was
\* supplied) and a tag list whose ids are exactly the supplied tagIds
C33_CreateReadRoundTrip ==
    ReadReturned("getExerciseById")
        => \A c \in hist.created :
              c.id = res[1].id
                  => /\ res[1].val.row.name = Trim(c.data.name[1])
                     /\ res[1].val.row.defaultWeight = c.data.defaultWeight
                     /\ res[1].val.row.tags = (IF c.data.tagIds = None THEN {}
                                               ELSE Range(c.data.tagIds[1]))

----------------------------------------------------------------------------
(* SpecRecent: one caller adding sets and reading the recent exercises *)

RecentLimits == {1, 2}
RecentExerciseIds == {1, 2}
RecentWeightReps == {<<5, 5>>, <<6, 3>>}

RecentNext ==
    \/ \E e \in RecentExerciseIds, wr \in RecentWeightReps : addSet(1, 1, e, wr[1], wr[2])
    \/ \E n \in RecentLimits : readStart(1, "getRecentExercises", n)
    \/ getFirst(1)
    \/ executeQuery(1)
    \/ getOrFetch_store(1)
    \/ executeRun_single(1)
    \/ invalidation(1)

SpecRecent == SvcInit /\ [][RecentNext]_vars

\* the use count of exercise e in database d, 0 when it has no recent-exercises row
UseCount(d, e) ==
    IF e \in DOMAIN d.recent_exercises THEN d.recent_exercises[e].use_count ELSE 0

\* the exercise ids of a getRecentExercises result
RecentIds(val) == {val.rows[k].id : k \in DOMAIN val.rows}

C37_RecentLimitIndependent ==
    ReadReturned("getRecentExercises")
        => res[1].val = queryRecentExercises(db, res[1].id)

----------------------------------------------------------------------------
(* SpecTimer: the cleanup timer is started and stopped while entries age *)

CacheTimerInit ==
    /\ CacheInit(TimedKeySet) /\ KeyIdle /\ TablesIdle
    /\ cleanupInterval = None
    /\ intervals = {}
    /\ service = None
    /\ callers = None

CacheTimerNext ==
    \/ Tick /\ UNCHANGED <<keyVars, svcVars, appVars>>
    \/ \E k \in TimedKeySet, a \in TtlArgs :
         set(k, Val(1), a) /\ UNCHANGED <<keyVars, svcVars, appVars>>
    \/ \E k \in TimedKeySet : get(k) /\ UNCHANGED <<keyVars, svcVars, appVars>>
    \/ startCacheCleanup /\ UNCHANGED <<keyVars, svcVars, service, callers>>
    \/ stopCacheCleanup /\ UNCHANGED <<keyVars, svcVars, service, callers>>
    \/ \E h \in TimerHandles : intervalFires(h) /\ UNCHANGED <<keyVars, svcVars, service, callers>>

\* a timer that is not cleared keeps firing
TimerFairness ==
    WF_vars(\E h \in TimerHandles : intervalFires(h) /\ UNCHANGED <<keyVars, svcVars, service, callers>>)

SpecTimer == CacheTimerInit /\ [][CacheTimerNext]_vars /\ TimerFairness

TimerRunning == cleanupInterval # None

\* the entry now stored under k has outlived its ttl
Overdue(k, e) == k \in DOMAIN cache /\ cache[k] = e /\ entryExpired(e, now)

TimerEntries ==
    {[data |-> Val(1), timestamp |-> t, ttl |-> l] :
        t \in LaterSteps \cup {a + b : a \in LaterSteps, b \in TickSteps}, l \in {1, DEFAULT_TTL}}

\* C35: once startCacheCleanup has been called and stopCacheCleanup has not been called
\* since, every entry whose ttl has elapsed is eventually removed from the store even if
\* no get for its key occurs; there is never more than one timer, and a second
\* startCacheCleanup while one is running creates none.
C35_TimerCollectsExpired ==
    /\ [](Cardinality(intervals) <= 1 /\ (TimerRunning <=> intervals # {}))
    /\ [][TimerRunning => (intervals' \subseteq intervals)]_vars
    /\ \A k \in TimedKeySet, e \in TimerEntries :
          (TimerRunning /\ Overdue(k, e)) ~> (~Overdue(k, e) \/ ~TimerRunning)

\* C35 witness: with the timer running, its cleanup has removed an entry whose ttl had
\* elapsed, and that entry is gone from the store.
C35_Witness ==
    /\ TimerRunning
    /\ lastCall.op = "cleanup"
    /\ lastCall.had # None
    /\ \E k \in (DOMAIN lastCall.had[1]) \ (DOMAIN cache) :
          entryExpired(lastCall.had[1][k], now)

----------------------------------------------------------------------------
(* DatabaseService.initDatabase: callers overlap at its await *)

InitCallers == {1, 2, 3}

NotCalling == [pc |-> "idle", promise |-> None, outcome |-> None, state |-> None, started |-> FALSE]

ServiceInit == [initState |-> "uninitialized", initPromise |-> None, promises |-> <<>>]

initFrame ==
    UNCHANGED <<cacheVars, keyVars, db, txSnap, proc, res, hist, cleanupInterval, intervals>>

\* the call returns to its caller: its promise is settled while the service is in `state`
Returned(p, promise, outcome, started) ==
    [pc |-> "idle", promise |-> promise, outcome |-> Some(outcome),
     state |-> Some(service'.initState), started |-> started]

\* a promise whose reactions have not all run yet
Settling(n) ==
    /\ service.promises[n] # "pending"
    /\ \E q \in InitCallers : callers[q].pc # "idle" /\ callers[q].promise = Some(n)

\* calls come from tasks: the reactions of a settled promise run before the next task
TaskBoundary == \A n \in DOMAIN service.promises : ~Settling(n)

\* initState = 'initializing'; initPromise = this._initDatabase(); await this.initPromise
initDatabase_start(p) ==
    /\ service' = [service EXCEPT !.initState = "initializing",
                                  !.promises = Append(@, "pending"),
                                  !.initPromise = Some(Len(service.promises) + 1)]
    /\ callers' = [callers EXCEPT ![p] = [pc |-> "await", promise |-> Some(Len(service.promises) + 1),
                                          outcome |-> None, state |-> None, started |-> TRUE]]

initDatabase_call_unshared(p) ==
    /\ callers[p].pc = "idle"
    /\ ops < MaxOps
    /\ TaskBoundary
    /\ ops' = ops + 1
    /\ IF service.initState = "ready"
         THEN /\ UNCHANGED service
              /\ callers' = [callers EXCEPT ![p] = Returned(p, None, "resolved", FALSE)]
         ELSE initDatabase_start(p)
    /\ initFrame

\* initDatabase() up to its first suspension
initDatabase_call(p) ==
    /\ callers[p].pc = "idle"
    /\ ops < MaxOps
    /\ TaskBoundary
    /\ ops' = ops + 1
    /\ IF service.initState = "ready"
         THEN /\ UNCHANGED service
              /\ callers' = [callers EXCEPT ![p] = Returned(p, None, "resolved", FALSE)]
         ELSE IF service.initState = "initializing" /\ service.initPromise # None
         THEN /\ UNCHANGED service
              /\ callers' = [callers EXCEPT ![p] = [pc |-> "returned", promise |-> service.initPromise,
                                                    outcome |-> None, state |-> None, started |-> FALSE]]
         ELSE initDatabase_start(p)
    /\ initFrame

\* _initDatabase() finishes, or throws DatabaseError('Failed to initialize database')
initDatabase_settle(n, status) ==
    /\ n \in DOMAIN service.promises
    /\ service.promises[n] = "pending"
    /\ service' = [service EXCEPT !.promises[n] = status]
    /\ UNCHANGED <<callers, ops>>
    /\ initFrame

\* the caller that started the routine resumes after `await this.initPromise`
initDatabase_resume(p) ==
    /\ callers[p].pc = "await"
    /\ service.promises[callers[p].promise[1]] # "pending"
    /\ IF service.promises[callers[p].promise[1]] = "fulfilled"
         THEN /\ service' = [service EXCEPT !.initState = "ready"]
              /\ callers' = [callers EXCEPT ![p] = Returned(p, callers[p].promise, "resolved", TRUE)]
         ELSE /\ service' = [service EXCEPT !.initState = "error"]
              /\ callers' = [callers EXCEPT ![p] = Returned(p, callers[p].promise, "rejected", TRUE)]
    /\ UNCHANGED ops
    /\ initFrame

\* the promise of a caller that got `return this.initPromise` follows it; its reaction was
\* registered after that of the caller awaiting inside initDatabase and runs after it
initDatabase_follow(p) ==
    /\ callers[p].pc = "returned"
    /\ service.promises[callers[p].promise[1]] # "pending"
    /\ \A q \in InitCallers : ~(callers[q].pc = "await" /\ callers[q].promise = callers[p].promise)
    /\ UNCHANGED service
    /\ callers' = [callers EXCEPT ![p] =
                      Returned(p, callers[p].promise,
                               IF service.promises[callers[p].promise[1]] = "fulfilled"
                                  THEN "resolved" ELSE "rejected", FALSE)]
    /\ UNCHANGED ops
    /\ initFrame

----------------------------------------------------------------------------
(* SpecInit: three callers of initDatabase *)

InitInit ==
    /\ CacheInit({}) /\ KeyIdle /\ TablesIdle
    /\ cleanupInterval = None
    /\ intervals = {}
    /\ service = ServiceInit
    /\ callers = [p \in InitCallers |-> NotCalling]

InitNext ==
    \/ \E p \in InitCallers : initDatabase_call(p)
    \/ \E n \in 1 .. MaxOps : initDatabase_settle(n, "fulfilled")
    \/ \E n \in 1 .. MaxOps : initDatabase_settle(n, "rejected")
    \/ \E p \in InitCallers : initDatabase_resume(p)
    \/ \E p \in InitCallers : initDatabase_follow(p)

SpecInit == InitInit /\ [][InitNext]_vars

InFlight(p) == callers[p].pc # "idle"

----------------------------------------------------------------------------
(* SpecRename: one caller renaming exercises and reading the sets of a session *)

RenameInputs ==
    { Data(Some(<<"N">>), None, None),
      Data(Some(<<"M">>), None, None),
      Data(Some(<<"p">>), None, None) }

RenameNext ==
    \/ \E s \in SessionIds : readStart(1, "getSessionSets", s)
    \/ \E id \in ExerciseIds, data \in RenameInputs : writeStart(1, "updateExercise", id, data)
    \/ executeQuery(1)
    \/ getOrFetch_store(1)
    \/ transaction_begin(1)
    \/ executeRun_inUnit(1)
    \/ transaction_commit(1)
    \/ transaction_rollback(1)
    \/ invalidation(1)

SpecRename == SvcInit /\ [][RenameNext]_vars

\* C39: in sequential execution, after updateExercise(e, {name}) has committed, the next
\* getSessionSets(s) returns the sets of e in s with exerciseName equal to the stored name
\* of e, also when a getSessionSets(s) result was cached before the update.
C39_SetNamesFollowRename ==
    ReadReturned("getSessionSets")
        => \A r \in res[1].val.rows :
              r.exerciseId \in DOMAIN db.exercises
                  => r.exerciseName = db.exercises[r.exerciseId].name

----------------------------------------------------------------------------
(* SpecRange: one caller editing sets and reading sessions by date range *)

RangeIds == DOMAIN DateRanges
RangeWeightReps == {<<5, 5>>, <<7, 2>>}
RangeExerciseIds == {1, 2}

RangeNext ==
    \/ \E e \in RangeExerciseIds, wr \in RangeWeightReps : addSet(1, 1, e, wr[1], wr[2])
    \/ \E id \in SetIds, wr \in RangeWeightReps : updateSet(1, id, Some(wr[1]), Some(wr[2]))
    \/ \E id \in SetIds : deleteSet(1, id)
    \/ \E r \in RangeIds : readStart(1, "getSessionsForDateRange", r)
    \/ getFirst(1)
    \/ executeQuery(1)
    \/ getOrFetch_store(1)
    \/ executeRun_single(1)
    \/ invalidation(1)

SpecRange == SvcInit /\ [][RangeNext]_vars

\* C38: in sequential execution every getSessionsForDateRange, also one that follows an
\* addSet, updateSet or deleteSet on a session of a range whose result was cached, returns
\* for each session of the range the setCount, totalVolume and exerciseNames computed
\* from the sets now stored.
C38_RangeStatsFresh ==
    ReadReturned("getSessionsForDateRange")
        => \A r \in res[1].val.rows :
              \E q \in querySessionsForDateRange(db, DateRanges[res[1].id][1],
                                                 DateRanges[res[1].id][2]).rows :
                 /\ q.id = r.id
                 /\ q.setCount = r.setCount
                 /\ q.totalVolume = r.totalVolume
                 /\ q.exerciseNames = r.exerciseNames

----------------------------------------------------------------------------
(* BackupService and DatabaseService.resetDatabase: the database file is replaced *)

\* the database _initDatabase creates on a new file: tables and the default data
DbFresh ==
    [DbInit EXCEPT !.sessions = EmptyMap, !.sets = {}, !.recent_exercises = EmptyMap,
                   !.seq = [exercises |-> 2, sets |-> 0, sessions |-> 0, tags |-> 1]]

\* a database file written earlier: other names and another weight than are stored now
DbOlder ==
    [DbInit EXCEPT !.exercises[1].name = <<"B">>, !.tags[1].name = <<"K">>,
                   !.sets = {[id |-> 1, session_id |-> 1, exercise_id |-> 1, set_order |-> 1,
                              weight |-> 9, reps |-> 5]}]

\* what a backup path or a picked file holds: <<>> is no file (missing, or picker cancelled)
DbFiles == {None, Some(DbFresh), Some(DbOlder)}

\* close, copy the file over the database, initDatabase, verifyDatabaseIntegrity; when a
\* step fails the copy made first is put back and the failure is thrown as FileError
replaceDatabase(p, op, file, intact) ==
    /\ proc[p] = Idle
    /\ ops < MaxOps
    /\ ops' = ops + 1
    /\ txSnap = None
    /\ IF intact
         THEN /\ db' = file
              /\ Finish(proc, p, Merge(Idle, [op |-> op]), "ok", Null)
         ELSE /\ db' = db
              /\ Finish(proc, p, Merge(Idle, [op |-> op, err |-> Thrown("FileError", <<>>)]),
                        "FileError", Null)
    /\ UNCHANGED <<cache, txSnap, hist>>
    /\ svcFrame

\* BackupService.restoreFromAutoBackup(backupPath)
restoreFromAutoBackup(p, file, intact) ==
    IF file = None
    THEN /\ proc[p] = Idle
         /\ ops < MaxOps
         /\ ops' = ops + 1
         /\ Finish(proc, p, Merge(Idle, [op |-> "restoreFromAutoBackup",
                                         err |-> Thrown("FileError", <<>>)]), "FileError", Null)
         /\ UNCHANGED <<cache, db, txSnap, hist>>
         /\ svcFrame
    ELSE replaceDatabase(p, "restoreFromAutoBackup", file[1], intact)

\* BackupService.importDatabase(): the picker is cancelled, or a file is picked
importDatabase(p, file, intact) ==
    IF file = None
    THEN /\ proc[p] = Idle
         /\ ops < MaxOps
         /\ ops' = ops + 1
         /\ Finish(proc, p, Merge(Idle, [op |-> "importDatabase"]), "ok", Null)
         /\ UNCHANGED <<cache, db, txSnap, hist>>
         /\ svcFrame
    ELSE replaceDatabase(p, "importDatabase", file[1], intact)

\* DatabaseService.resetDatabase(): closeAsync, deleteDatabaseAsync, initDatabase
resetDatabase(p) ==
    /\ proc[p] = Idle
    /\ ops < MaxOps
    /\ ops' = ops + 1
    /\ txSnap = None
    /\ db' = DbFresh
    /\ Finish(proc, p, Merge(Idle, [op |-> "resetDatabase"]), "ok", Null)
    /\ UNCHANGED <<cache, txSnap, hist>>
    /\ svcFrame

----------------------------------------------------------------------------
(* SpecReplace: one caller reading while the database file is replaced *)

ReplaceNext ==
    \/ readStart(1, "getAllExercises", 0)
    \/ readStart(1, "getAllTags", 0)
    \/ \E s \in SessionIds : readStart(1, "getSessionSets", s)
    \/ executeQuery(1)
    \/ getOrFetch_store(1)
    \/ \E file \in DbFiles, intact \in BOOLEAN : restoreFromAutoBackup(1, file, intact)
    \/ \E file \in DbFiles, intact \in BOOLEAN : importDatabase(1, file, intact)
    \/ resetDatabase(1)

SpecReplace == SvcInit /\ [][ReplaceNext]_vars

\* C40: every cached read returns the data of the database in place, also after
\* restoreFromAutoBackup, importDatabase or resetDatabase has replaced it: no entry
\* stored from the previous content is returned.
C40_ReadsFollowReplacement ==
    \A op \in {"getAllExercises", "getAllTags", "getSessionSets"} :
        ReadReturned(op) => res[1].val = fetchRows(db, op, res[1].id)
====
